---- MODULE Spec2Model ----
(***************************************************************************)
(* Game Boy (DMG) emulator core: scanline/mode state machine of the three  *)
(* PPU implementations in the repository (GB/BUS.rs, GB/bus_io.rs,         *)
(* core/ppu/mod.rs) and the interrupt dispatch of the SM83 core            *)
(* (core/cpu/mod.rs, core/cpu/cpu.rs) over core/mmu/mod.rs.                *)
(***************************************************************************)
EXTENDS Integers, Naturals, Sequences, FiniteSets, TLC

VARIABLES build, bus, io, ppu, mmu, cpu, leg, elapsed, ev, cart, audio

vars == <<build, bus, io, ppu, mmu, cpu, leg, elapsed, ev, cart, audio>>

(***************************************************************************)
(* Bit arithmetic on bytes and words                                       *)
(***************************************************************************)
\* 1 << n for the bit positions of a byte
Pow2(n) == <<1, 2, 4, 8, 16, 32, 64, 128, 256>>[n + 1]

Bit(v, n) == (v \div Pow2(n)) % 2

SetBit(v, n) == IF Bit(v, n) = 1 THEN v ELSE v + Pow2(n)

ClearBit(v, n) == IF Bit(v, n) = 1 THEN v - Pow2(n) ELSE v

\* v & m for an 8-bit v and mask m
RECURSIVE AndBits(_, _, _)
AndBits(v, m, n) ==
    IF n < 0 THEN 0
    ELSE (IF Bit(v, n) = 1 /\ Bit(m, n) = 1 THEN Pow2(n) ELSE 0) + AndBits(v, m, n - 1)

And8(v, m) == AndBits(v, m, 7)

Wrap8(v) == v % 256

Wrap16(v) == v % 65536

Min(a, b) == IF a < b THEN a ELSE b

(***************************************************************************)
(* Program constants                                                       *)
(***************************************************************************)
LineDots == 456
VBLANK_LINE == 144
MAX_LINE == 153
OamDots == 80
Mode3End == 252
TransferDots == 172
HBlankDots == 204

\* dots of a frame: 154 lines of 456 dots
FrameDots == LineDots * (MAX_LINE + 1)

(***************************************************************************)
(* Inputs of the model                                                     *)
(***************************************************************************)
\* T-cycle batches handed to a step function: two instruction costs and a
\* batch longer than a scanline
Batches == {4, 12, 460}

\* values written to LCDC (LCD on with BG, LCD off)
LcdcValues == {145, 17}

\* values written to IF
IfValues == {0}

\* values written to LY
LyValues == {200}

\* RAM::read: ram holds the cells written with a non-zero byte as pairs
\* <<address, byte>>, every other cell is 0
RamRead(ram, a) ==
    IF \E p \in ram : p[1] = a
    THEN (CHOOSE p \in ram : p[1] = a)[2]
    ELSE 0

\* RAM::write
RamWrite(ram, a, v) ==
    {p \in ram : p[1] # a} \cup (IF v = 0 THEN {} ELSE {<<a, v>>})

(***************************************************************************)
(* GB/BUS.rs: Bus, PPU timing section of Bus::step                         *)
(***************************************************************************)
BusNew ==
    [lcdc |-> 0, stat_w |-> 0, ly |-> 0, lyc |-> 0, ifl |-> 0,
     ppu_line_cycle |-> 0, ppu_mode |-> 2,
     div |-> 0, tima |-> 0, tma |-> 0, tac |-> 0,
     div_counter |-> 0, tima_counter |-> 0, vram |-> 0,
     dma |-> 0, ram |-> {}, obp0 |-> 255, obp1 |-> 255]

\* (mode, boundary) of the current position
BusModeAt(b) ==
    IF b.ly >= 144 THEN <<1, 456>>
    ELSE IF b.ppu_line_cycle < OamDots THEN <<2, OamDots>>
    ELSE IF b.ppu_line_cycle < Mode3End THEN <<3, Mode3End>>
    ELSE <<0, 456>>

\* STAT request made when the loop switches to mode m
BusModeIrq(b, m) ==
    IF m = 2 /\ Bit(b.stat_w, 5) = 1 THEN SetBit(b.ifl, 1)
    ELSE IF m = 1 /\ Bit(b.stat_w, 4) = 1 THEN SetBit(b.ifl, 1)
    ELSE IF m = 0 /\ Bit(b.stat_w, 3) = 1 THEN SetBit(b.ifl, 1)
    ELSE b.ifl

\* variant of the wrap that lets line 154 through
BusWrapLyLate(ly) == IF ly > MAX_LINE + 1 THEN 0 ELSE ly

BusWrapLy(ly) == IF ly > MAX_LINE THEN 0 ELSE ly

\* end of a scanline: next line, VBlank and STAT requests, wrap after 153
BusEndOfLine(b) ==
    LET ly1 == Wrap8(b.ly + 1)
        if1 == IF ly1 = 144
               THEN (IF Bit(b.stat_w, 4) = 1 THEN SetBit(SetBit(b.ifl, 0), 1)
                     ELSE SetBit(b.ifl, 0))
               ELSE b.ifl
        ly2 == BusWrapLy(ly1)
        if2 == IF Bit(b.stat_w, 6) = 1 /\ ly2 = b.lyc THEN SetBit(if1, 1) ELSE if1
    IN [b EXCEPT !.ppu_line_cycle = 0, !.ly = ly2, !.ifl = if2]

RECURSIVE BusPpuLoop(_, _)
BusPpuLoop(b, remain) ==
    IF remain = 0 THEN b
    ELSE LET mb == BusModeAt(b)
             b1 == IF mb[1] # b.ppu_mode
                   THEN [b EXCEPT !.ifl = BusModeIrq(b, mb[1]), !.ppu_mode = mb[1]]
                   ELSE b
             step == Min(mb[2] - b1.ppu_line_cycle, remain)
             lc == b1.ppu_line_cycle + step
             b2 == IF lc >= 456 THEN BusEndOfLine(b1)
                   ELSE [b1 EXCEPT !.ppu_line_cycle = lc]
         IN BusPpuLoop(b2, remain - step)

BusStepPpu(b, c) ==
    IF Bit(b.lcdc, 7) = 1
    THEN LET b1 == BusPpuLoop(b, c)
         IN IF Bit(b1.stat_w, 6) = 1 /\ b1.ly = b1.lyc
            THEN [b1 EXCEPT !.ifl = SetBit(b1.ifl, 1)]
            ELSE b1
    ELSE [b EXCEPT !.ppu_mode = 0, !.ppu_line_cycle = 0]

\* Bus::write to 0xFF44: any value resets the line position
BusWriteLy(b) == [b EXCEPT !.ly = 0, !.ppu_line_cycle = 0, !.ppu_mode = 2]

BusWriteLcdc(b, v) == [b EXCEPT !.lcdc = v]

BusWriteIf(b, v) == [b EXCEPT !.ifl = And8(v, 31)]

\* Bus::read of 0xFF0F
BusReadIf(b) == SetBit(SetBit(SetBit(b.ifl, 5), 6), 7)

(***************************************************************************)
(* GB/bus_io.rs: BusIO, scanline section of BusIO::step                    *)
(***************************************************************************)
BusIONew ==
    [lcdc |-> 0, scx |-> 0, ly |-> 0, ifl |-> 0,
     ppu_line_cycle |-> 0, ppu_mode |-> 2,
     div |-> 0, tima |-> 0, tma |-> 0, tac |-> 0,
     div_counter |-> 0, dma_cycle_accum |-> 0,
     dma_active |-> FALSE, dma_pos |-> 0, dma_start_delay |-> 0,
     mem_ram |-> {}]

IoModeAt(s) ==
    IF s.ly >= 144 THEN <<1, 456>>
    ELSE IF s.ppu_line_cycle < OamDots THEN <<2, OamDots>>
    ELSE LET mode3_end == OamDots + TransferDots + (s.scx % 8)
         IN IF s.ppu_line_cycle < mode3_end THEN <<3, mode3_end>> ELSE <<0, 456>>

IoWrapLy(ly) == IF ly > MAX_LINE THEN 0 ELSE ly

\* variant of the end of line that requests VBlank one line early
IoEndOfLineEarly(s) ==
    [s EXCEPT !.ifl = IF s.ly = 142 THEN SetBit(s.ifl, 0) ELSE s.ifl,
              !.ppu_line_cycle = 0,
              !.ly = IoWrapLy(Wrap8(s.ly + 1))]

\* end of a scanline: VBlank request after line 143, next line, wrap after 153
IoEndOfLine(s) ==
    [s EXCEPT !.ifl = IF s.ly = 143 THEN SetBit(s.ifl, 0) ELSE s.ifl,
              !.ppu_line_cycle = 0,
              !.ly = IoWrapLy(Wrap8(s.ly + 1))]

RECURSIVE IoPpuLoop(_, _)
IoPpuLoop(s, remain) ==
    IF remain = 0 THEN s
    ELSE LET mb == IoModeAt(s)
             s1 == [s EXCEPT !.ppu_mode = mb[1]]
             step == Min(mb[2] - s1.ppu_line_cycle, remain)
             lc == s1.ppu_line_cycle + step
             s2 == IF lc >= 456 THEN IoEndOfLine(s1)
                   ELSE [s1 EXCEPT !.ppu_line_cycle = lc]
         IN IoPpuLoop(s2, remain - step)

IoStepPpu(s, c) ==
    IF Bit(s.lcdc, 7) = 1 THEN IoPpuLoop(s, c)
    ELSE [s EXCEPT !.ppu_mode = 0, !.ppu_line_cycle = 0, !.ly = 0]

\* BusMem::write to 0xFF44, 0xFF40, 0xFF0F
IoWriteLy(s) == [s EXCEPT !.ly = 0, !.ppu_line_cycle = 0]

IoWriteLcdc(s, v) == [s EXCEPT !.lcdc = v]

IoWriteIf(s, v) == [s EXCEPT !.ifl = And8(v, 31)]

(***************************************************************************)
(* core/mmu/mod.rs: MMU (the cells the PPU and the CPU use)                *)
(***************************************************************************)
\* initial stack pointer and the words of high RAM below it that are kept
StackTop == 65534
MaxStack == 3
StackLimit == StackTop - 2 * MaxStack
StackCells == StackLimit..StackTop

\* the cells of video_ram above 0x8000, of object_attribute_memory and the
\* registers OBP0 and OBP1, kept as pairs <<address, byte>>
VideoCells == (32769..40959) \cup (65024..65183) \cup {65352, 65353}

MmuNew ==
    [io40 |-> 0, io41 |-> 0, io44 |-> 0, io45 |-> 0, io0F |-> 0,
     io04 |-> 0, io05 |-> 0, io06 |-> 0, io07 |-> 0,
     ly |-> 0, lcd_stat |-> 0,
     interrupt_flags |-> 0, interrupt_enable |-> 0,
     ram |-> [a \in StackCells |-> 0], vram |-> 0, rom |-> <<>>,
     video |-> {}]

\* MMU::read_byte: 0xFF0F is served from interrupt_flags, the other I/O
\* addresses from io_registers, 0xFFFF from interrupt_enable
MmuReadByte(m, addr) ==
    IF addr = 65295 THEN m.interrupt_flags
    ELSE IF addr = 65284 THEN m.io04
    ELSE IF addr = 65285 THEN m.io05
    ELSE IF addr = 65286 THEN m.io06
    ELSE IF addr = 65287 THEN m.io07
    ELSE IF addr = 65344 THEN m.io40
    ELSE IF addr = 65345 THEN m.io41
    ELSE IF addr = 65348 THEN m.io44
    ELSE IF addr = 65349 THEN m.io45
    ELSE IF addr = 65535 THEN m.interrupt_enable
    ELSE IF addr \in DOMAIN m.rom THEN m.rom[addr]
    ELSE IF addr \in StackCells THEN m.ram[addr]
    ELSE IF addr = 32768 THEN m.vram
    ELSE IF addr \in VideoCells THEN RamRead(m.video, addr)
    ELSE 255

\* MMU::read_byte of the two bytes of a word
MmuReadWord(m, addr) ==
    MmuReadByte(m, addr) + 256 * MmuReadByte(m, Wrap16(addr + 1))

\* MMU::write_byte: every address in 0xFF00..0xFF7F goes to io_registers
MmuWriteByte(m, addr, v) ==
    IF addr = 65295 THEN [m EXCEPT !.io0F = v]
    ELSE IF addr = 65284 THEN [m EXCEPT !.io04 = v]
    ELSE IF addr = 65285 THEN [m EXCEPT !.io05 = v]
    ELSE IF addr = 65286 THEN [m EXCEPT !.io06 = v]
    ELSE IF addr = 65287 THEN [m EXCEPT !.io07 = v]
    ELSE IF addr = 65344 THEN [m EXCEPT !.io40 = v]
    ELSE IF addr = 65345 THEN [m EXCEPT !.io41 = v]
    ELSE IF addr = 65348 THEN [m EXCEPT !.io44 = v]
    ELSE IF addr = 65349 THEN [m EXCEPT !.io45 = v]
    ELSE IF addr = 65535 THEN [m EXCEPT !.interrupt_enable = v]
    ELSE IF addr \in StackCells THEN [m EXCEPT !.ram[addr] = v]
    ELSE IF addr = 32768 THEN [m EXCEPT !.vram = v]
    ELSE IF addr \in VideoCells
    THEN [m EXCEPT !.video = RamWrite(m.video, addr, v)]
    ELSE m

(***************************************************************************)
(* core/ppu/mod.rs: PPU                                                    *)
(***************************************************************************)
PpuNew == [mode_clock |-> 0, current_line |-> 0, current_mode |-> 0]

\* (stat & 0xFC) | (mode & 0x03)
WithMode(stat, mode) == stat - (stat % 4) + (mode % 4)

\* PPU::update_lcd_status: STAT mode and coincidence bits, LY register
UpdateLcdStatus(p, m) ==
    LET stat0 == WithMode(MmuReadByte(m, 65345), p.current_mode)
        lyc == MmuReadByte(m, 65349)
        stat1 == IF p.current_line = lyc THEN SetBit(stat0, 2) ELSE ClearBit(stat0, 2)
    IN MmuWriteByte(MmuWriteByte(m, 65345, stat1), 65348, p.current_line)

\* the match on current_mode: the new PPU fields and whether VBlank is requested
PpuAdvance(p, cycles) ==
    LET clk == p.mode_clock + cycles
        q == [p EXCEPT !.mode_clock = clk]
    IN CASE p.current_mode = 0 ->
              IF clk >= HBlankDots
              THEN IF p.current_line + 1 = VBLANK_LINE
                   THEN [ppu |-> [mode_clock |-> 0, current_line |-> p.current_line + 1,
                                  current_mode |-> 1], vblank |-> TRUE]
                   ELSE [ppu |-> [mode_clock |-> 0, current_line |-> p.current_line + 1,
                                  current_mode |-> 2], vblank |-> FALSE]
              ELSE [ppu |-> q, vblank |-> FALSE]
         [] p.current_mode = 1 ->
              IF clk >= LineDots
              THEN IF p.current_line + 1 > MAX_LINE
                   THEN [ppu |-> [mode_clock |-> 0, current_line |-> 0,
                                  current_mode |-> 2], vblank |-> FALSE]
                   ELSE [ppu |-> [mode_clock |-> 0, current_line |-> p.current_line + 1,
                                  current_mode |-> 1], vblank |-> FALSE]
              ELSE [ppu |-> q, vblank |-> FALSE]
         [] p.current_mode = 2 ->
              IF clk >= OamDots
              THEN [ppu |-> [q EXCEPT !.mode_clock = 0, !.current_mode = 3], vblank |-> FALSE]
              ELSE [ppu |-> q, vblank |-> FALSE]
         [] OTHER ->
              IF clk >= TransferDots
              THEN [ppu |-> [q EXCEPT !.mode_clock = 0, !.current_mode = 0], vblank |-> FALSE]
              ELSE [ppu |-> q, vblank |-> FALSE]

\* PPU::step: the pair of the PPU and the MMU after the call
PpuStep(p, m, cycles) ==
    IF Bit(MmuReadByte(m, 65344), 7) = 0
    THEN LET p0 == [mode_clock |-> 0, current_line |-> 0, current_mode |-> 0]
             m0 == UpdateLcdStatus(p0, m)
         IN [ppu |-> p0,
             mmu |-> [m0 EXCEPT !.ly = 0, !.lcd_stat = WithMode(m0.lcd_stat, 0)]]
    ELSE LET r == PpuAdvance(p, cycles)
             p1 == r.ppu
             m1 == IF r.vblank
                   THEN [m EXCEPT !.interrupt_flags = SetBit(m.interrupt_flags, 0)]
                   ELSE m
             m2 == IF p.current_mode # p1.current_mode \/ p.current_line # p1.current_line
                   THEN [m1 EXCEPT !.ly = p1.current_line,
                                   !.lcd_stat = WithMode(m1.lcd_stat, p1.current_mode)]
                   ELSE m1
             m3 == IF p.current_mode # p1.current_mode THEN UpdateLcdStatus(p1, m2) ELSE m2
         IN [ppu |-> p1, mmu |-> m3]

(***************************************************************************)
(* interface/audio.rs: SimpleAPUSynth and the threads that share it        *)
(***************************************************************************)
\* SimpleAPUSynth::default(): the fields the frame sequencer of the callback
\* reads and writes
SynthDefault ==
    [master_gain |-> "default",
     ch1_enable |-> FALSE, ch1_length |-> 0, ch1_length_enable |-> FALSE,
     ch2_enable |-> FALSE, ch2_length |-> 0, ch2_length_enable |-> FALSE,
     ch1_env_period |-> 0, ch1_env_dir |-> 1, ch1_env_volume |-> 0, ch1_env_timer |-> 0,
     ch2_env_period |-> 0, ch2_env_dir |-> 1, ch2_env_volume |-> 0, ch2_env_timer |-> 0,
     ch1_sweep_period |-> 0, ch1_sweep_negate |-> FALSE, ch1_sweep_shift |-> 0,
     ch1_sweep_timer |-> 0, ch1_sweep_shadow |-> 0]

\* main before the synth is created: the position of the main thread and of
\* the audio callback, the owner of the Mutex, the samples produced and the
\* clockings of each unit so far
AudioNew ==
    [main |-> "new", lock |-> "free", cb |-> "idle", requested |-> 0,
     synth |-> SynthDefault, bus_synth |-> FALSE,
     callbacks |-> 0, allocs |-> 0, samples |-> 0,
     len_ticks |-> 0, env_ticks |-> 0, sweep_ticks |-> 0]

(***************************************************************************)
(* State after construction                                                *)
(***************************************************************************)
CpuNew ==
    [pc |-> 256, sp |-> StackTop, halted |-> FALSE, ime |-> FALSE,
     ime_scheduled |-> FALSE, instruction_count |-> 0, af |-> 432]

\* core/cpu/cpu.rs CPU with the cells of its MMU that CPU::step uses
LegNew ==
    [pc |-> 256, sp |-> StackTop, ime |-> FALSE, ie |-> 0, iflags |-> 0,
     mem |-> [a \in StackCells |-> 0]]

NoEvent == [kind |-> "none"]

\* no cartridge inserted
NoCart == [kind |-> "none"]

Init ==
    /\ build \in {"bus", "busio", "core"}
    /\ audio = AudioNew
    /\ bus = BusNew
    /\ cart = NoCart
    /\ io = BusIONew
    /\ ppu = PpuNew
    /\ mmu = MmuNew
    /\ cpu = CpuNew
    /\ leg = LegNew
    /\ elapsed = 0
    /\ ev = NoEvent

(***************************************************************************)
(* Scanline machine: one action per entry point of each build              *)
(***************************************************************************)
\* Bus::step(cycles)
BusStep(c) ==
    /\ build = "bus"
    /\ bus' = BusStepPpu(bus, c)
    /\ UNCHANGED <<build, audio, cart, io, ppu, mmu, cpu, leg, elapsed, ev>>

\* Bus::write(0xFF44, _)
BusWriteLY ==
    /\ build = "bus"
    /\ bus' = BusWriteLy(bus)
    /\ UNCHANGED <<build, audio, cart, io, ppu, mmu, cpu, leg, elapsed, ev>>

\* Bus::write(0xFF40, v)
BusWriteLCDC(v) ==
    /\ build = "bus"
    /\ bus' = BusWriteLcdc(bus, v)
    /\ UNCHANGED <<build, audio, cart, io, ppu, mmu, cpu, leg, elapsed, ev>>

\* Bus::write(0xFF0F, v)
BusWriteIF(v) ==
    /\ build = "bus"
    /\ bus' = BusWriteIf(bus, v)
    /\ UNCHANGED <<build, audio, cart, io, ppu, mmu, cpu, leg, elapsed, ev>>

\* BusIO::step(cycles, ..)
IoStep(c) ==
    /\ build = "busio"
    /\ io' = IoStepPpu(io, c)
    /\ UNCHANGED <<build, audio, cart, bus, ppu, mmu, cpu, leg, elapsed, ev>>

\* BusMem::write(0xFF44, _, io, ..)
IoWriteLY ==
    /\ build = "busio"
    /\ io' = IoWriteLy(io)
    /\ UNCHANGED <<build, audio, cart, bus, ppu, mmu, cpu, leg, elapsed, ev>>

\* BusMem::write(0xFF40, v, io, ..)
IoWriteLCDC(v) ==
    /\ build = "busio"
    /\ io' = IoWriteLcdc(io, v)
    /\ UNCHANGED <<build, audio, cart, bus, ppu, mmu, cpu, leg, elapsed, ev>>

\* BusMem::write(0xFF0F, v, io, ..)
IoWriteIF(v) ==
    /\ build = "busio"
    /\ io' = IoWriteIf(io, v)
    /\ UNCHANGED <<build, audio, cart, bus, ppu, mmu, cpu, leg, elapsed, ev>>

\* PPU::step(cycles)
CoreStep(c) ==
    /\ build = "core"
    /\ LET r == PpuStep(ppu, mmu, c)
       IN /\ ppu' = r.ppu
          /\ mmu' = r.mmu
    /\ UNCHANGED <<build, audio, cart, bus, io, cpu, leg, elapsed, ev>>

\* MMU::write_byte(0xFF44, v)
CoreWriteLY(v) ==
    /\ build = "core"
    /\ mmu' = MmuWriteByte(mmu, 65348, v)
    /\ UNCHANGED <<build, audio, cart, bus, io, ppu, cpu, leg, elapsed, ev>>

\* MMU::write_byte(0xFF40, v)
CoreWriteLCDC(v) ==
    /\ build = "core"
    /\ mmu' = MmuWriteByte(mmu, 65344, v)
    /\ UNCHANGED <<build, audio, cart, bus, io, ppu, cpu, leg, elapsed, ev>>

Next ==
    \/ \E c \in Batches : BusStep(c)
    \/ BusWriteLY
    \/ \E v \in LcdcValues : BusWriteLCDC(v)
    \/ \E v \in IfValues : BusWriteIF(v)
    \/ \E c \in Batches : IoStep(c)
    \/ IoWriteLY
    \/ \E v \in LcdcValues : IoWriteLCDC(v)
    \/ \E v \in IfValues : IoWriteIF(v)
    \/ \E c \in Batches : CoreStep(c)
    \/ \E v \in LyValues : CoreWriteLY(v)
    \/ \E v \in LcdcValues : CoreWriteLCDC(v)

Spec == Init /\ [][Next]_vars

(***************************************************************************)
(* Frame intervals: a marked start position and the cycles fed since       *)
(***************************************************************************)
\* cycles that may pass between LCD-on and the start of the interval
PreRollDots == 16

\* batch sizes an interval is split into (each divides the frame length)
FrameBatches == {4, 24, 8778}

LcdOn ==
    CASE build = "bus" -> Bit(bus.lcdc, 7) = 1
      [] build = "busio" -> Bit(io.lcdc, 7) = 1
      [] OTHER -> Bit(MmuReadByte(mmu, 65344), 7) = 1

\* dot within the line of the core PPU: modes follow each other as 2, 3, 0
CoreLineDot(p) ==
    CASE p.current_mode = 2 -> p.mode_clock
      [] p.current_mode = 3 -> OamDots + p.mode_clock
      [] p.current_mode = 0 -> Mode3End + p.mode_clock
      [] OTHER -> p.mode_clock

CurLy ==
    CASE build = "bus" -> bus.ly
      [] build = "busio" -> io.ly
      [] OTHER -> ppu.current_line

CurDot ==
    CASE build = "bus" -> bus.ppu_line_cycle
      [] build = "busio" -> io.ppu_line_cycle
      [] OTHER -> CoreLineDot(ppu)

\* the running build's step function applied to a batch of c cycles
StepEffect(c) ==
    /\ build = "bus" => bus' = BusStepPpu(bus, c) /\ UNCHANGED <<io, ppu, mmu>>
    /\ build = "busio" => io' = IoStepPpu(io, c) /\ UNCHANGED <<bus, ppu, mmu>>
    /\ build = "core" =>
          /\ ppu' = PpuStep(ppu, mmu, c).ppu
          /\ mmu' = PpuStep(ppu, mmu, c).mmu
          /\ UNCHANGED <<bus, io>>
    /\ UNCHANGED <<build, audio, cart, cpu, leg>>

\* LCDC write that turns the LCD on
FrameLcdOn ==
    /\ ~LcdOn
    /\ \/ BusWriteLCDC(145)
       \/ IoWriteLCDC(145)
       \/ CoreWriteLCDC(145)

\* steps before the interval starts
FramePreRoll ==
    /\ LcdOn
    /\ ev.kind = "none"
    /\ elapsed < PreRollDots
    /\ StepEffect(4)
    /\ elapsed' = elapsed + 4
    /\ UNCHANGED ev

\* the interval starts here; it will be fed in batches of b cycles
FrameBegin(b) ==
    /\ LcdOn
    /\ ev.kind = "none"
    /\ ev' = [kind |-> "frame", batch |-> b, ly |-> CurLy, dot |-> CurDot]
    /\ elapsed' = 0
    /\ UNCHANGED <<build, audio, cart, bus, io, ppu, mmu, cpu, leg>>

\* one batch of the interval
FrameStep ==
    /\ ev.kind = "frame"
    /\ elapsed + ev.batch <= FrameDots
    /\ StepEffect(ev.batch)
    /\ elapsed' = elapsed + ev.batch
    /\ UNCHANGED ev

NextFrame ==
    \/ FrameLcdOn
    \/ FramePreRoll
    \/ \E b \in FrameBatches : FrameBegin(b)
    \/ FrameStep

SpecFrame == Init /\ [][NextFrame]_vars

(***************************************************************************)
(* Claims about the scanline machine                                       *)
(***************************************************************************)
Lines == 0..MAX_LINE

ModeLineCoupling ==
    /\ (bus.ly >= 144) <=> (bus.ppu_mode = 1)
    /\ (ppu.current_line >= 144) <=> (ppu.current_mode = 1)

\* C3: once exactly 70224 cycles of an interval have been fed, LY and the
\* dot within the line are back at their values at the start
FramePeriod ==
    (ev.kind = "frame" /\ elapsed = FrameDots) => (CurLy = ev.ly /\ CurDot = ev.dot)

\* the batch of c cycles that starts at (ly, dot) passes the end of line 143
Crosses144(ly, dot, c) ==
    \E j \in 1..((dot + c) \div LineDots) : (ly + j) % (MAX_LINE + 1) = VBLANK_LINE

\* C4: with the LCD on, a step sets IF bit 0 exactly when LY goes from 143
\* to 144 during it
VBlankExact ==
    [][\A c \in Batches :
         /\ (BusStep(c) /\ LcdOn /\ Bit(bus.ifl, 0) = 0) =>
               (Bit(bus'.ifl, 0) = 1 <=> Crosses144(bus.ly, bus.ppu_line_cycle, c))
         /\ (IoStep(c) /\ LcdOn /\ Bit(io.ifl, 0) = 0) =>
               (Bit(io'.ifl, 0) = 1 <=> Crosses144(io.ly, io.ppu_line_cycle, c))
         /\ (CoreStep(c) /\ LcdOn /\ Bit(mmu.interrupt_flags, 0) = 0) =>
               (Bit(mmu'.interrupt_flags, 0) = 1 <=>
                    (ppu.current_line = 143 /\ ppu'.current_line = 144))
      ]_vars

\* C4 witness: BusIO has just entered line 144 and IF bit 0 is set
VBlankRaised ==
    /\ build = "busio"
    /\ io.ly = 144
    /\ io.ppu_line_cycle < 24
    /\ Bit(io.ifl, 0) = 1

(***************************************************************************)
(* core/cpu/mod.rs: CPU, stack and interrupt dispatch                      *)
(***************************************************************************)
NOP == 0
HALT == 118
DI == 243
EI == 251
RETI == 217
RST00 == 199

\* opcodes handed to decode_and_execute
Opcodes == {NOP, HALT, DI, EI, RETI, RST00}

\* instructions a run may execute
MaxInstructions == 4

IF_ADDR == 65295
IE_ADDR == 65535

\* variant of push_word with the two bytes exchanged
PushWordSwapped(c, m, value) ==
    LET m1 == MmuWriteByte(m, Wrap16(c.sp + 65535), value % 256)
        m2 == MmuWriteByte(m1, Wrap16(c.sp + 65534), (value \div 256) % 256)
    IN [cpu |-> [c EXCEPT !.sp = Wrap16(c.sp + 65534)], mmu |-> m2]

\* CPU::push_word: high byte at sp-1, low byte at sp-2, then sp -= 2
PushWord(c, m, value) ==
    LET m1 == MmuWriteByte(m, Wrap16(c.sp + 65535), (value \div 256) % 256)
        m2 == MmuWriteByte(m1, Wrap16(c.sp + 65534), value % 256)
    IN [cpu |-> [c EXCEPT !.sp = Wrap16(c.sp + 65534)], mmu |-> m2]

\* CPU::pop_word: low byte at sp, high byte at sp+1, then sp += 2
PopWord(c, m) ==
    [cpu |-> [c EXCEPT !.sp = Wrap16(c.sp + 2)], value |-> MmuReadWord(m, c.sp)]

\* the for loop over i in 0..5: first i with the bit set in pending
RECURSIVE FirstPending(_, _)
FirstPending(pending, i) ==
    IF Bit(pending, i) = 1 THEN i ELSE FirstPending(pending, i + 1)

\* variant of the scan that takes the highest pending bit
ServiceBitLast(pending) ==
    CHOOSE k \in 0..4 : Bit(pending, k) = 1 /\ \A j \in 0..4 : j > k => Bit(pending, j) = 0

\* the bit the scan of check_and_handle_interrupts stops at
ServiceBit(pending) == FirstPending(pending, 0)

\* CPU::check_and_handle_interrupts; serviced is the set of bits dispatched
CheckAndHandleInterrupts(c, m) ==
    IF ~c.ime THEN [cpu |-> c, mmu |-> m, serviced |-> {}]
    ELSE LET if_flags == MmuReadByte(m, IF_ADDR)
             ie_flags == MmuReadByte(m, IE_ADDR)
             pending == And8(And8(if_flags, ie_flags), 31)
         IN IF pending = 0 THEN [cpu |-> c, mmu |-> m, serviced |-> {}]
            ELSE LET i == ServiceBit(pending)
                     c1 == [c EXCEPT !.halted = FALSE, !.ime = FALSE]
                     m1 == MmuWriteByte(m, IF_ADDR, ClearBit(if_flags, i))
                     r == PushWord(c1, m1, c1.pc)
                 IN [cpu |-> [r.cpu EXCEPT !.pc = 64 + i * 8],
                     mmu |-> r.mmu, serviced |-> {i}]

\* the cartridge logo area, where instructions::execute skips to 0x0150
InLogo(pc) == pc >= 260 /\ pc <= 307

(***************************************************************************)
(* core/cpu/mod.rs and core/cpu/instructions: the opcode dispatch tables   *)
(***************************************************************************)
\* the illegal-opcode list checked at the head of CPU::decode_and_execute
IllegalOpcodes == {211, 219, 221, 227, 228, 235, 236, 237, 244, 252, 253}

\* the RST arms of CPU::decode_and_execute
RstOpcodes == {199, 207, 215, 223, 231, 239, 247, 255}

\* the CALL arms of CPU::decode_and_execute
CallOpcodes == {205, 196, 204, 212, 220}

\* the arms of instructions::load::dispatch
LoadHandled ==
    {1, 17, 33, 49} \cup (64..127) \cup {6, 14, 22, 30, 38, 46, 62}
    \cup {10, 26, 250, 2, 18, 234, 242, 226, 224, 240}
    \cup {34, 42, 50, 58, 54, 249, 248, 8}

\* the arms of instructions::arithmetic::dispatch
ArithmeticHandled ==
    {4, 12, 20, 28, 36, 44, 52, 60} \cup {5, 13, 21, 29, 37, 45, 53, 61}
    \cup (128..159) \cup {198, 206, 214, 222} \cup {39}

\* the arms of instructions::logic::dispatch
LogicHandled == (160..191) \cup {230, 246, 238, 254}

\* the arms of instructions::jump::dispatch
JumpHandled == {195, 194, 202, 210, 218, 24, 32, 40, 48, 56, 233}

\* the arms of instructions::control::dispatch
ControlHandled ==
    {118, 16, 251, 243, 200, 205, 195, 32, 62, 25, 234, 0}
    \cup {193, 209, 225, 241, 197, 213, 229, 245} \cup RstOpcodes
    \cup {201, 217}

\* instructions::execute: the dispatcher its match sends an opcode to
ExecuteRoute(op) ==
    CASE op = 0 -> "control"
      [] op \in {8, 1, 17, 33, 49, 2, 18, 34, 50} -> "load"
      [] op \in {6, 14, 22, 30, 38, 46, 54, 62, 10, 26, 42, 58} -> "load"
      [] op \in {234, 250, 224, 240, 226, 242} -> "load"
      [] op \in (64..117) \cup (119..127) -> "load"
      [] op \in {3, 19, 35, 51, 11, 27, 43, 59} -> "arithmetic"
      [] op \in {4, 12, 20, 28, 36, 44, 52, 60} -> "arithmetic"
      [] op \in {5, 13, 21, 29, 37, 45, 53, 61} -> "arithmetic"
      [] op \in CallOpcodes \cup RstOpcodes -> "call"
      [] op \in (128..159) \cup {198, 206, 214, 222} -> "arithmetic"
      [] op = 254 -> "logic"
      [] op \in 160..191 -> "logic"
      [] op = 23 -> "inline"
      [] op \in {32, 40, 48, 56} -> "jump"
      [] op = 39 -> "arithmetic"
      [] op = 118 -> "control"
      [] op \in {248, 249} -> "load"
      [] op \in {243, 251} -> "control"
      [] op \in {194, 195, 202, 210, 218, 233} -> "jump"
      [] op \in {192, 200, 201, 208, 216, 217} -> "control"
      [] op = 203 -> "bit"
      [] OTHER -> "none"

\* whether the dispatcher an opcode is routed to has an arm for it
RouteHandles(route, op) ==
    CASE route = "load" -> op \in LoadHandled
      [] route = "arithmetic" -> op \in ArithmeticHandled
      [] route = "logic" -> op \in LogicHandled
      [] route = "jump" -> op \in JumpHandled
      [] route = "control" -> op \in ControlHandled
      [] route \in {"call", "inline", "bit"} -> TRUE
      [] OTHER -> FALSE

\* instructions::execute: "ok" when an implementation ran, "invalid" when
\* the call returned InstructionError::InvalidOpcode
ExecuteStatus(op, pc) ==
    IF op \in (IllegalOpcodes \ {237}) \/ (op = 237 /\ ~InLogo(pc))
    THEN "invalid"
    ELSE IF InLogo(pc) THEN "ok"
    ELSE IF RouteHandles(ExecuteRoute(op), op) THEN "ok"
    ELSE "invalid"

\* the match of CPU::decode_and_execute for a core that is not halted
DecodeStatus(op, pc) ==
    IF op \in IllegalOpcodes THEN "invalid"
    ELSE CASE op = 0 -> "ok"
           [] op = 49 -> "ok"
           [] op \in 1..62 -> IF op \in LoadHandled THEN "ok" ELSE "invalid"
           [] op \in RstOpcodes \cup CallOpcodes \cup {203} -> "ok"
           [] OTHER -> ExecuteStatus(op, pc)

\* ControlInstructions::halt
Halt(c) == [c EXCEPT !.halted = TRUE]

\* ControlInstructions::enable_interrupts
EnableInterrupts(c) == [c EXCEPT !.ime_scheduled = TRUE, !.pc = Wrap16(c.pc + 1)]

\* ControlInstructions::disable_interrupts
DisableInterrupts(c) == [c EXCEPT !.ime = FALSE, !.pc = Wrap16(c.pc + 1)]

\* ControlInstructions::reti: IME on, then ret
Reti(c, m) ==
    LET r == PopWord([c EXCEPT !.ime = TRUE], m)
    IN [r.cpu EXCEPT !.pc = r.value]

\* ControlInstructions::rst: push the address after the opcode, jump
Rst(c, m, addr) ==
    LET r == PushWord(c, m, Wrap16(c.pc + 1))
    IN [cpu |-> [r.cpu EXCEPT !.pc = addr], mmu |-> r.mmu]

\* instructions::execute and control::dispatch for HALT, DI, EI, RETI
Execute(c, m, op) ==
    IF InLogo(c.pc) THEN [c EXCEPT !.pc = 336]
    ELSE CASE op = HALT -> Halt(c)
           [] op = EI -> EnableInterrupts(c)
           [] op = DI -> DisableInterrupts(c)
           [] op = RETI -> Reti(c, m)

\* cycle constants of core/cpu/mod.rs
CYCLES_4 == 4
CYCLES_16 == 16

\* the cycle count the implementation of an opcode returns
InstructionCycles(op, pc) ==
    CASE op = NOP -> CYCLES_4
      [] op = RST00 -> CYCLES_16
      [] InLogo(pc) -> 4
      [] op = RETI -> CYCLES_16
      [] OTHER -> CYCLES_4

\* CPU::decode_and_execute: the CPU and MMU after the call, the CPU as the
\* instruction left it (mid), the interrupt bits dispatched afterwards, and
\* the result: status "ok" with the cycle count, or "invalid" for
\* Err(InvalidOpcode), which skips the interrupt check
DecodeAndExecuteOp(c, m, op) ==
    LET c0 == [c EXCEPT !.instruction_count = c.instruction_count + 1]
    IN IF c.halted
       THEN LET r == CheckAndHandleInterrupts(c0, m)
            IN [cpu |-> r.cpu, mmu |-> r.mmu, mid |-> c0, midmmu |-> m,
                serviced |-> r.serviced, status |-> "ok", cycles |-> CYCLES_4]
       ELSE IF DecodeStatus(op, c.pc) = "invalid"
       THEN [cpu |-> c0, mmu |-> m, mid |-> c0, midmmu |-> m,
             serviced |-> {}, status |-> "invalid", cycles |-> 0]
       ELSE LET x == CASE op = NOP -> [cpu |-> c0, mmu |-> m]
                       [] op = RST00 -> Rst(c0, m, 0)
                       [] OTHER -> [cpu |-> Execute(c0, m, op), mmu |-> m]
                r == CheckAndHandleInterrupts(x.cpu, x.mmu)
            IN [cpu |-> r.cpu, mmu |-> r.mmu, mid |-> x.cpu, midmmu |-> x.mmu,
                serviced |-> r.serviced, status |-> "ok",
                cycles |-> InstructionCycles(op, c.pc)]

(***************************************************************************)
(* core/cpu/cpu.rs: interrupt dispatch at the head of CPU::step            *)
(***************************************************************************)
\* variant of interrupt_vec with the vectors 5 bytes apart
InterruptVecFive == <<<<0, 64>>, <<1, 69>>, <<2, 74>>, <<3, 79>>, <<4, 84>>>>

\* interrupt_vec: (bit, vector) in priority order
InterruptVec == <<<<0, 64>>, <<1, 72>>, <<2, 80>>, <<3, 88>>, <<4, 96>>>>

\* the for loop over interrupt_vec from entry k on
RECURSIVE LegDispatch(_, _)
LegDispatch(l, k) ==
    IF k > Len(InterruptVec) THEN l
    ELSE IF Bit(And8(l.ie, l.iflags), InterruptVec[k][1]) = 1
         THEN LET sp1 == Wrap16(l.sp + 65534)
              IN [l EXCEPT !.iflags = ClearBit(l.iflags, InterruptVec[k][1]),
                           !.ime = FALSE,
                           !.sp = sp1,
                           !.mem = [a \in DOMAIN l.mem |->
                                       IF a = sp1 THEN l.pc % 256
                                       ELSE IF a = sp1 + 1 THEN (l.pc \div 256) % 256
                                       ELSE l.mem[a]],
                           !.pc = InterruptVec[k][2]]
         ELSE LegDispatch(l, k + 1)

\* CPU::step of cpu.rs: dispatch, then fetch_byte moves PC over the opcode
LegStepOp(l) ==
    LET l1 == IF l.ime /\ And8(l.ie, l.iflags) # 0 THEN LegDispatch(l, 1) ELSE l
    IN [l1 EXCEPT !.pc = Wrap16(l1.pc + 1)]

(***************************************************************************)
(* Processor: one action per entry point                                   *)
(***************************************************************************)
\* values written to IE
IeValues == {0, 4, 5}

\* IF & IE & 0x1F
Pending(ifl, ie) == And8(And8(ifl, ie), 31)

\* position of the step after an executed EI: 1 for EI itself, 2 for the
\* instruction that follows it
AfterEi(op) ==
    IF ~cpu.halted /\ op = EI /\ ~InLogo(cpu.pc) THEN 1
    ELSE IF ev.kind = "step" /\ ev.after_ei = 1 /\ ~cpu.halted THEN 2
    ELSE 0

\* CPU::decode_and_execute(opcode)
DecodeAndExecute(op) ==
    /\ build = "cpu"
    /\ cpu.instruction_count < MaxInstructions
    /\ LET r == DecodeAndExecuteOp(cpu, mmu, op)
       IN /\ r.cpu.sp \in StackCells
          /\ cpu' = r.cpu
          /\ mmu' = r.mmu
          /\ ev' = [kind |-> "step", op |-> op,
                    pre_halted |-> cpu.halted, pre_ime |-> cpu.ime,
                    pre_pc |-> cpu.pc,
                    mid_ime |-> r.mid.ime, mid_pc |-> r.mid.pc, mid_sp |-> r.mid.sp,
                    ifl |-> MmuReadByte(r.midmmu, IF_ADDR),
                    ie |-> MmuReadByte(r.midmmu, IE_ADDR),
                    serviced |-> r.serviced,
                    if_after |-> MmuReadByte(r.mmu, IF_ADDR),
                    top |-> MmuReadWord(r.mmu, r.cpu.sp),
                    after_ei |-> AfterEi(op)]
    /\ UNCHANGED <<build, audio, cart, bus, io, ppu, leg, elapsed>>

\* PPU::step entering VBlank: mmu.interrupt_flags |= 1 << 0
RaiseVBlank ==
    /\ build = "cpu"
    /\ mmu' = [mmu EXCEPT !.interrupt_flags = SetBit(mmu.interrupt_flags, 0)]
    /\ UNCHANGED <<build, audio, cart, bus, io, ppu, cpu, leg, elapsed, ev>>

\* GameBoy::update_timer on TIMA overflow: mmu.interrupt_flags |= 0x04
RaiseTimer ==
    /\ build = "cpu"
    /\ mmu' = [mmu EXCEPT !.interrupt_flags = SetBit(mmu.interrupt_flags, 2)]
    /\ UNCHANGED <<build, audio, cart, bus, io, ppu, cpu, leg, elapsed, ev>>

\* MMU::write_byte(0xFFFF, v)
CoreWriteIE(v) ==
    /\ build = "cpu"
    /\ mmu' = MmuWriteByte(mmu, IE_ADDR, v)
    /\ UNCHANGED <<build, audio, cart, bus, io, ppu, cpu, leg, elapsed, ev>>

\* cpu.rs: the owner sets the public ime field and the IE and IF cells
LegArm(ie, ifl) ==
    /\ build = "legacy"
    /\ ~leg.ime
    /\ leg' = [leg EXCEPT !.ime = TRUE, !.ie = ie, !.iflags = ifl]
    /\ ev' = NoEvent
    /\ UNCHANGED <<build, audio, cart, bus, io, ppu, mmu, cpu, elapsed>>

\* cpu.rs CPU::step()
LegStep ==
    /\ build = "legacy"
    /\ elapsed < MaxInstructions
    /\ LegStepOp(leg).sp \in StackCells
    /\ leg' = LegStepOp(leg)
    /\ elapsed' = elapsed + 1
    /\ ev' = [kind |-> "leg", ime |-> leg.ime, ie |-> leg.ie, iflags |-> leg.iflags,
              pc |-> leg.pc, sp |-> leg.sp]
    /\ UNCHANGED <<build, audio, cart, bus, io, ppu, mmu, cpu>>

InitCPU ==
    /\ build \in {"cpu", "legacy"}
    /\ audio = AudioNew
    /\ bus = BusNew
    /\ cart = NoCart
    /\ io = BusIONew
    /\ ppu = PpuNew
    /\ mmu = MmuNew
    /\ cpu = CpuNew
    /\ leg = LegNew
    /\ elapsed = 0
    /\ ev = NoEvent

NextCPU ==
    \/ \E op \in Opcodes : DecodeAndExecute(op)
    \/ RaiseVBlank
    \/ RaiseTimer
    \/ \E v \in IeValues : CoreWriteIE(v)
    \/ \E v \in IeValues : \E f \in IeValues : LegArm(v, f)
    \/ LegStep

SpecCPU == InitCPU /\ [][NextCPU]_vars

(***************************************************************************)
(* Claims about interrupt dispatch, EI and HALT                            *)
(***************************************************************************)
\* lowest bit number set in a non-zero request mask
Lowest(p) == CHOOSE i \in 0..4 : Bit(p, i) = 1 /\ \A j \in 0..4 : j < i => Bit(p, j) = 0

\* C5: when IME is set at an instruction boundary and IF & IE & 0x1F is not
\* zero, the interrupt dispatched is the one with the lowest bit number, and
\* only that one: PC is its vector, one word was pushed and IME is off
LowestBitFirst ==
    /\ (ev.kind = "step" /\ ev.mid_ime /\ Pending(ev.ifl, ev.ie) # 0) =>
          /\ ev.serviced = {Lowest(Pending(ev.ifl, ev.ie))}
          /\ cpu.pc = 64 + 8 * Lowest(Pending(ev.ifl, ev.ie))
          /\ cpu.sp = Wrap16(ev.mid_sp + 65534)
          /\ ~cpu.ime
    /\ (ev.kind = "leg" /\ ev.ime /\ Pending(ev.iflags, ev.ie) # 0) =>
          /\ leg.pc = 64 + 8 * Lowest(Pending(ev.iflags, ev.ie)) + 1
          /\ leg.sp = Wrap16(ev.sp + 65534)
          /\ ~leg.ime

\* C5 witness: VBlank and Timer were both pending and enabled with IME set,
\* and VBlank was dispatched
TwoPendingServiced ==
    /\ ev.kind = "step"
    /\ ev.mid_ime
    /\ Pending(ev.ifl, ev.ie) = 5
    /\ ev.serviced = {0}
    /\ cpu.pc = 64

\* C6: dispatching an interrupt lowers SP by 2, leaves the PC from before
\* the dispatch as the word at the top of the stack, and clears IME
ServicePushesPc ==
    (ev.kind = "step" /\ ev.serviced # {}) =>
        /\ cpu.sp = Wrap16(ev.mid_sp + 65534)
        /\ ev.top = ev.mid_pc
        /\ ~cpu.ime

\* C6 witness: an interrupt was dispatched from a PC with a non-zero low byte
ServicedFromCode ==
    /\ ev.kind = "step"
    /\ ev.serviced # {}
    /\ ev.mid_pc % 256 # 0
    /\ ev.mid_pc \div 256 # 0
    /\ ev.top = ev.mid_pc

\* C7: after bit b has been dispatched, a read of 0xFF0F shows bit b clear
\* and the other request bits as they were
IfBitCleared ==
    (ev.kind = "step" /\ ev.serviced # {}) =>
        \A b \in ev.serviced : ev.if_after = ClearBit(ev.ifl, b)

\* C8: IME is false while the instruction after EI executes and true once
\* that instruction (here a NOP, with nothing pending) has completed
EiDelay ==
    (ev.kind = "step" /\ ev.after_ei = 2 /\ ev.op = NOP /\ Pending(ev.ifl, ev.ie) = 0) =>
        (~ev.pre_ime /\ cpu.ime)

\* C9: a halted CPU with an enabled request bit set in IF is no longer
\* halted after one step, whether or not IME is set
HaltWake ==
    (ev.kind = "step" /\ ev.pre_halted /\ Pending(ev.ifl, ev.ie) # 0) => ~cpu.halted

\* C10: HALT executed with IME clear and IF & IE & 0x1F non-zero does not
\* leave the halted flag set
HaltNoSuspend ==
    (ev.kind = "step" /\ ev.op = HALT /\ ~ev.pre_halted /\ ~InLogo(ev.pre_pc)
        /\ ~ev.pre_ime /\ Pending(ev.ifl, ev.ie) # 0) => ~cpu.halted

(***************************************************************************)
(* lib.rs: GameBoy::step, GameBoy::execute_instruction and update_timer    *)
(***************************************************************************)
\* opcodes the cartridge may hold at PC: NOP, HALT, RST 00H and the
\* undefined 0xD3
GbOpcodes == {NOP, HALT, RST00, 211}

\* values written to TAC, TIMA and TMA
TacValues == {5}
TimaValues == {255}
TmaValues == {7}

\* update_timer: the TIMA period selected by TAC bits 1..0
TimerSpeed(tac) == <<1024, 16, 64, 256>>[(tac % 4) + 1]

\* GameBoy::update_timer
UpdateTimer(m, cycles) ==
    LET div == Wrap8(m.io04 + ((cycles \div 4) % 256))
        m1 == [m EXCEPT !.io04 = div]
        tima == Wrap8(m.io05 + ((cycles \div TimerSpeed(m.io07)) % 256))
    IN IF Bit(m.io07, 2) = 0 THEN m1
       ELSE IF tima = 0
       THEN [m1 EXCEPT !.io05 = m.io06,
                       !.interrupt_flags = SetBit(m.interrupt_flags, 2)]
       ELSE [m1 EXCEPT !.io05 = tima]

\* GameBoy::step: while cycles > 0 { ppu.step(4); cycles -= 4 }
RECURSIVE GbPpuLoop(_, _, _)
GbPpuLoop(p, m, cycles) ==
    IF cycles <= 0 THEN [ppu |-> p, mmu |-> m]
    ELSE LET r == PpuStep(p, m, 4)
         IN GbPpuLoop(r.ppu, r.mmu, cycles - 4)

\* the number of increments update_timer adds to TIMA
UpdateTimerTicks(m, cycles) ==
    IF Bit(m.io07, 2) = 0 THEN 0
    ELSE (cycles \div TimerSpeed(m.io07)) % 256

\* history since TAC was last written: steps taken, cycles consumed by
\* them and TIMA increments performed
NoHist == [steps |-> 0, since |-> 0, ticks |-> 0]

Hist(e) == IF e.kind \in {"gb", "tac", "timer"} THEN e.hist ELSE NoHist

NextHist(e, cycles, ticks) ==
    [steps |-> Hist(e).steps + 1,
     since |-> Hist(e).since + cycles,
     ticks |-> Hist(e).ticks + ticks]

\* what one step did to DIV, TIMA and IF bit 2
TimerEvent(pre_tima, pre_ifl, tma, ticks, tima, ifl) ==
    [pre_tima |-> pre_tima, pre_if2 |-> Bit(pre_ifl, 2), tma |-> tma,
     ticks |-> ticks, tima |-> tima, if2 |-> Bit(ifl, 2)]

\* GameBoy::step, the match on the result r of decode_and_execute: an
\* InvalidOpcode error is logged and 4 cycles are assumed
GbStepCycles(r) == IF r.status = "invalid" THEN 4 ELSE r.cycles

\* GameBoy::step, the InvalidOpcode arm: PC moves to the next byte
GbStepCpu(c, r) ==
    IF r.status = "invalid" THEN [r.cpu EXCEPT !.pc = Wrap16(c.pc + 1)] ELSE r.cpu

\* GameBoy::step after decode_and_execute returned r and the PPU loop left
\* q: the timer is not updated and the call returns Ok(4)
GbStepCommit(op, r, q) ==
    /\ GbStepCpu(cpu, r).sp \in StackCells
    /\ cpu' = GbStepCpu(cpu, r)
    /\ ppu' = q.ppu
    /\ mmu' = q.mmu
    /\ elapsed' = elapsed + GbStepCycles(r)
    /\ ev' = [kind |-> "gb", entry |-> "step", op |-> op,
              pre_pc |-> cpu.pc, pre_halted |-> cpu.halted,
              status |-> r.status, cost |-> r.cycles, result |-> "ok",
              returned |-> 4, ppu_cycles |-> GbStepCycles(r), timer_cycles |-> 0,
              hist |-> NextHist(ev, GbStepCycles(r), 0),
              tm |-> TimerEvent(mmu.io05, mmu.interrupt_flags, mmu.io06,
                                0, q.mmu.io05, q.mmu.interrupt_flags)]

\* GameBoy::step, the PPU loop in steps of 4 after decode_and_execute
\* returned r
GbStepPpu(op, r) == GbStepCommit(op, r, GbPpuLoop(ppu, r.mmu, GbStepCycles(r)))

\* GameBoy::step
GameBoyStep(op) ==
    /\ build \in {"gameboy", "gbboot"}
    /\ cpu.instruction_count < MaxInstructions
    /\ GbStepPpu(op, DecodeAndExecuteOp(cpu, mmu, op))
    /\ UNCHANGED <<build, audio, cart, bus, io, leg>>

\* GameBoy::execute_instruction after decode_and_execute returned r,
\* update_timer left m1 and ppu.step left q
ExecCommit(op, r, ticks, m1, q) ==
    /\ r.cpu.sp \in StackCells
    /\ cpu' = r.cpu
    /\ ppu' = q.ppu
    /\ mmu' = q.mmu
    /\ elapsed' = elapsed + (IF r.status = "ok" THEN r.cycles ELSE 0)
    /\ ev' = [kind |-> "gb", entry |-> "execute_instruction", op |-> op,
              pre_pc |-> cpu.pc, pre_halted |-> cpu.halted,
              status |-> r.status, cost |-> r.cycles,
              result |-> IF r.status = "ok" THEN "ok" ELSE "err",
              returned |-> 0,
              ppu_cycles |-> IF r.status = "ok" THEN r.cycles ELSE 0,
              timer_cycles |-> IF r.status = "ok" THEN r.cycles ELSE 0,
              hist |-> NextHist(ev, IF r.status = "ok" THEN r.cycles ELSE 0, ticks),
              tm |-> TimerEvent(r.mmu.io05, r.mmu.interrupt_flags, r.mmu.io06,
                                ticks, m1.io05, m1.interrupt_flags)]

\* GameBoy::execute_instruction, ppu.step(cycles) after update_timer left m1
ExecPpu(op, r, ticks, m1) ==
    ExecCommit(op, r, ticks, m1,
               IF r.status = "ok" THEN PpuStep(ppu, m1, r.cycles)
               ELSE [ppu |-> ppu, mmu |-> m1])

\* GameBoy::execute_instruction, update_timer(cycles) after
\* decode_and_execute returned r: its error is returned to the caller before
\* the timer and the PPU are touched
ExecTimer(op, r) ==
    ExecPpu(op, r,
            IF r.status = "ok" THEN UpdateTimerTicks(r.mmu, r.cycles) ELSE 0,
            IF r.status = "ok" THEN UpdateTimer(r.mmu, r.cycles) ELSE r.mmu)

\* GameBoy::execute_instruction
ExecuteInstruction(op) ==
    /\ build = "gameboy"
    /\ cpu.instruction_count < MaxInstructions
    /\ ExecTimer(op, DecodeAndExecuteOp(cpu, mmu, op))
    /\ UNCHANGED <<build, audio, cart, bus, io, leg>>

\* a program store to TIMA or TMA through MMU::write_byte
GbWriteTimer(addr, v) ==
    /\ build \in {"gameboy", "tick"}
    /\ mmu' = MmuWriteByte(mmu, addr, v)
    /\ UNCHANGED <<build, audio, cart, bus, io, ppu, cpu, leg, elapsed, ev>>

\* the program's store to TAC that starts the timer
GbWriteTAC(v) ==
    /\ build \in {"gameboy", "tick"}
    /\ mmu.io07 = 0
    /\ mmu' = MmuWriteByte(mmu, 65287, v)
    /\ ev' = [kind |-> "tac", hist |-> [Hist(ev) EXCEPT !.since = 0, !.ticks = 0]]
    /\ UNCHANGED <<build, audio, cart, bus, io, ppu, cpu, leg, elapsed>>

InitGB ==
    /\ build = "gameboy"
    /\ audio = AudioNew
    /\ bus = BusNew
    /\ cart = NoCart
    /\ io = BusIONew
    /\ ppu = PpuNew
    /\ mmu = MmuNew
    /\ cpu = CpuNew
    /\ leg = LegNew
    /\ elapsed = 0
    /\ ev = NoEvent

NextGB ==
    \/ \E op \in GbOpcodes : GameBoyStep(op)
    \/ \E op \in GbOpcodes : ExecuteInstruction(op)
    \/ \E v \in TacValues : GbWriteTAC(v)
    \/ \E v \in TimaValues : GbWriteTimer(65285, v)
    \/ \E v \in TmaValues : GbWriteTimer(65286, v)

SpecGB == InitGB /\ [][NextGB]_vars

\* C11: when one of the 11 undefined primary opcodes is fetched by a core
\* that is not halted, the step returns an error to its caller or leaves the
\* core halted; it never goes on to the next instruction
UndefinedOpcodeStops ==
    (ev.kind = "gb" /\ ev.op \in IllegalOpcodes /\ ~ev.pre_halted)
        => (ev.result = "err" \/ cpu.halted)

(***************************************************************************)
(* Decoding: every primary opcode, at a PC outside and inside the logo     *)
(* area, handed to CPU::decode_and_execute                                 *)
(***************************************************************************)
\* PC values given to GameBoy::set_pc before the decode
DecodePcs == {256, 260}

InitDecode ==
    /\ build = "decode"
    /\ audio = AudioNew
    /\ bus = BusNew
    /\ cart = NoCart
    /\ io = BusIONew
    /\ ppu = PpuNew
    /\ mmu = MmuNew
    /\ \E pc \in DecodePcs : cpu = [CpuNew EXCEPT !.pc = pc]
    /\ leg = LegNew
    /\ elapsed = 0
    /\ \E op \in 0..255 : ev = [kind |-> "fetch", op |-> op]

\* CPU::decode_and_execute on the fetched opcode: the result of the dispatch
DecodeOpcode ==
    /\ build = "decode"
    /\ ev.kind = "fetch"
    /\ ev' = [kind |-> "decoded", op |-> ev.op,
              status |-> DecodeStatus(ev.op, cpu.pc)]
    /\ cpu' = [cpu EXCEPT !.instruction_count = cpu.instruction_count + 1]
    /\ UNCHANGED <<build, audio, cart, bus, io, ppu, mmu, leg, elapsed>>

NextDecode == DecodeOpcode

SpecDecode == InitDecode /\ [][NextDecode]_vars

\* C12: decoding any primary opcode outside the 11 undefined ones reaches an
\* implementation and never returns the invalid-opcode error
DefinedOpcodesDispatched ==
    (ev.kind = "decoded" /\ ev.op \notin IllegalOpcodes) => ev.status = "ok"

\* C13: GameBoy::step returns the cycle cost of the instruction it executed
\* and hands exactly that many cycles to the timer and to the PPU
StepCyclesExact ==
    (ev.kind = "gb" /\ ev.entry = "step" /\ ev.status = "ok")
        => /\ ev.returned = ev.cost
           /\ ev.ppu_cycles = ev.cost
           /\ ev.timer_cycles = ev.cost

(***************************************************************************)
(* Timers: the DIV and TIMA sections of Bus::step and BusIO::step, and     *)
(* MMU::tick                                                               *)
(***************************************************************************)
\* Bus::tima_period_cycles
TimaPeriodCycles(tac) == <<1024, 16, 64, 256>>[(tac % 4) + 1]

\* the body of the while loop of Bus::step, run n times: the increments
\* that do not reach past 0xFF are taken in one go, a reload is one iteration
RECURSIVE BusTimaTicks(_, _)
BusTimaTicks(b, n) ==
    IF n = 0 THEN b
    ELSE IF b.tima = 255
    THEN BusTimaTicks([b EXCEPT !.tima = b.tma, !.ifl = SetBit(b.ifl, 2)], n - 1)
    ELSE LET k == Min(n, 255 - b.tima)
         IN BusTimaTicks([b EXCEPT !.tima = b.tima + k], n - k)

\* Bus::step, DIV and TIMA sections; ticks is the number of loop iterations
\* (the u32 counters stay below 2^31 for the step sizes used)
BusStepTimer(b, c) ==
    LET dc == b.div_counter + c
        b1 == IF dc >= 256
              THEN [b EXCEPT !.div = Wrap8(b.div + ((dc \div 256) % 256)),
                             !.div_counter = dc % 256]
              ELSE [b EXCEPT !.div_counter = dc]
        period == TimaPeriodCycles(b.tac)
        tc == b.tima_counter + c
    IN IF Bit(b.tac, 2) = 0 THEN [bus |-> b1, ticks |-> 0]
       ELSE [bus |-> BusTimaTicks([b1 EXCEPT !.tima_counter = tc % period],
                                  tc \div period),
             ticks |-> tc \div period]

\* Bus::write of 0xFF05, 0xFF06 and 0xFF07
BusWriteTimerReg(b, addr, v) ==
    CASE addr = 65285 -> [b EXCEPT !.tima = v]
      [] addr = 65286 -> [b EXCEPT !.tma = v]
      [] addr = 65287 -> [b EXCEPT !.tac = v % 8]

\* BusIO::step, the fixed period of its TIMA section
IoTimaPeriod == 1024

\* the body of the TIMA while loop of BusIO::step, run n times: the
\* increments without overflow are taken in one go
RECURSIVE IoTimaTicks(_, _)
IoTimaTicks(s, n) ==
    IF n = 0 THEN s
    ELSE IF s.tima + 1 > 255
    THEN IoTimaTicks([s EXCEPT !.tima = s.tma, !.ifl = SetBit(s.ifl, 2)], n - 1)
    ELSE LET k == Min(n, 255 - s.tima)
         IN IoTimaTicks([s EXCEPT !.tima = s.tima + k], n - k)

\* BusIO::step, DIV and TIMA sections: div_counter is a u16 and the cycle
\* count is truncated to u16 before it is added
IoStepTimer(s, c) ==
    LET dc == (s.div_counter + (c % 65536)) % 65536
        s1 == [s EXCEPT !.div = Wrap8(s.div + (dc \div 256)),
                        !.div_counter = dc % 256]
        acc == s.dma_cycle_accum + c
    IN IF Bit(s.tac, 2) = 0 THEN [io |-> s1, ticks |-> 0]
       ELSE [io |-> IoTimaTicks([s1 EXCEPT !.dma_cycle_accum = acc % IoTimaPeriod],
                                acc \div IoTimaPeriod),
             ticks |-> acc \div IoTimaPeriod]

\* BusMem::write of 0xFF05, 0xFF06 and 0xFF07
IoWriteTimerReg(s, addr, v) ==
    CASE addr = 65285 -> [s EXCEPT !.tima = v]
      [] addr = 65286 -> [s EXCEPT !.tma = v]
      [] addr = 65287 -> [s EXCEPT !.tac = v % 8]

\* MMU::tick: DIV + 1, TIMA + 1 when TAC bit 2 is set, IF bit 0 always
MmuTickOp(m) ==
    LET m1 == [m EXCEPT !.io04 = Wrap8(m.io04 + 1)]
        tima == Wrap8(m.io05 + 1)
        m2 == IF Bit(m.io07, 2) = 0 THEN m1
              ELSE IF tima = 0
              THEN [m1 EXCEPT !.io05 = m.io06,
                              !.interrupt_flags = SetBit(m.interrupt_flags, 2)]
              ELSE [m1 EXCEPT !.io05 = tima]
    IN [m2 EXCEPT !.interrupt_flags = SetBit(m2.interrupt_flags, 0)]

\* cycle counts handed to Bus::step and BusIO::step
TimerBatches == {4, 12, 1020, 65532}

\* number of steps taken in a timer run
MaxTimerSteps == 4

\* Bus::step: DIV and TIMA sections, then the PPU section
BusTimerStep(c) ==
    /\ build = "bustimer"
    /\ Hist(ev).steps < MaxTimerSteps
    /\ LET r == BusStepTimer(bus, c)
       IN /\ bus' = BusStepPpu(r.bus, c)
          /\ ev' = [kind |-> "timer", hist |-> NextHist(ev, c, r.ticks),
                    tm |-> TimerEvent(bus.tima, bus.ifl, bus.tma,
                                      r.ticks, r.bus.tima, r.bus.ifl)]
    /\ elapsed' = elapsed + c
    /\ UNCHANGED <<build, audio, cart, io, ppu, mmu, cpu, leg>>

\* Bus::write to TIMA or TMA
BusTimerWrite(addr, v) ==
    /\ build = "bustimer"
    /\ bus' = BusWriteTimerReg(bus, addr, v)
    /\ UNCHANGED <<build, audio, cart, io, ppu, mmu, cpu, leg, elapsed, ev>>

\* Bus::write to TAC that starts the timer
BusTimerWriteTAC(v) ==
    /\ build = "bustimer"
    /\ bus.tac = 0
    /\ bus' = BusWriteTimerReg(bus, 65287, v)
    /\ ev' = [kind |-> "tac", hist |-> [Hist(ev) EXCEPT !.since = 0, !.ticks = 0]]
    /\ UNCHANGED <<build, audio, cart, io, ppu, mmu, cpu, leg, elapsed>>

\* BusIO::step: DIV and TIMA sections, then the scanline section
IoTimerStep(c) ==
    /\ build = "iotimer"
    /\ Hist(ev).steps < MaxTimerSteps
    /\ LET r == IoStepTimer(io, c)
       IN /\ io' = IoStepPpu(r.io, c)
          /\ ev' = [kind |-> "timer", hist |-> NextHist(ev, c, r.ticks),
                    tm |-> TimerEvent(io.tima, io.ifl, io.tma,
                                      r.ticks, r.io.tima, r.io.ifl)]
    /\ elapsed' = elapsed + c
    /\ UNCHANGED <<build, audio, cart, bus, ppu, mmu, cpu, leg>>

\* BusMem::write to TIMA or TMA
IoTimerWrite(addr, v) ==
    /\ build = "iotimer"
    /\ io' = IoWriteTimerReg(io, addr, v)
    /\ UNCHANGED <<build, audio, cart, bus, ppu, mmu, cpu, leg, elapsed, ev>>

\* BusMem::write to TAC that starts the timer
IoTimerWriteTAC(v) ==
    /\ build = "iotimer"
    /\ io.tac = 0
    /\ io' = IoWriteTimerReg(io, 65287, v)
    /\ ev' = [kind |-> "tac", hist |-> [Hist(ev) EXCEPT !.since = 0, !.ticks = 0]]
    /\ UNCHANGED <<build, audio, cart, bus, ppu, mmu, cpu, leg, elapsed>>

\* MMU::tick
MmuTick ==
    /\ build = "tick"
    /\ Hist(ev).steps < MaxTimerSteps
    /\ mmu' = MmuTickOp(mmu)
    /\ LET ticks == IF Bit(mmu.io07, 2) = 1 THEN 1 ELSE 0
       IN ev' = [kind |-> "timer", hist |-> NextHist(ev, 0, ticks),
                 tm |-> TimerEvent(mmu.io05, mmu.interrupt_flags, mmu.io06,
                                   ticks, mmu'.io05, mmu'.interrupt_flags)]
    /\ UNCHANGED <<build, audio, cart, bus, io, ppu, cpu, leg, elapsed>>

InitTimer ==
    /\ build \in {"bustimer", "iotimer", "tick", "gameboy"}
    /\ audio = AudioNew
    /\ bus = BusNew
    /\ cart = NoCart
    /\ io = BusIONew
    /\ ppu = PpuNew
    /\ mmu = MmuNew
    /\ cpu = CpuNew
    /\ leg = LegNew
    /\ elapsed = 0
    /\ ev = NoEvent

NextTimer ==
    \/ \E c \in TimerBatches : BusTimerStep(c)
    \/ \E v \in TimaValues : BusTimerWrite(65285, v)
    \/ \E v \in TmaValues : BusTimerWrite(65286, v)
    \/ \E v \in TacValues : BusTimerWriteTAC(v)
    \/ \E c \in TimerBatches : IoTimerStep(c)
    \/ \E v \in TimaValues : IoTimerWrite(65285, v)
    \/ \E v \in TmaValues : IoTimerWrite(65286, v)
    \/ \E v \in TacValues : IoTimerWriteTAC(v)
    \/ MmuTick
    \/ \E op \in GbOpcodes : ExecuteInstruction(op)
    \/ \E v \in TacValues : GbWriteTAC(v)
    \/ \E v \in TimaValues : GbWriteTimer(65285, v)
    \/ \E v \in TmaValues : GbWriteTimer(65286, v)

SpecTimer == InitTimer /\ [][NextTimer]_vars

\* DIV of the build under test
DivOf ==
    CASE build = "bustimer" -> bus.div
      [] build = "iotimer" -> io.div
      [] OTHER -> mmu.io04

\* TAC of the build under test
TacOf ==
    CASE build = "bustimer" -> bus.tac
      [] build = "iotimer" -> io.tac
      [] OTHER -> mmu.io07

\* Bus::step: DIV after N cycles from reset is floor(N / 256) mod 256
DivRateBus == build = "bustimer" => bus.div = (elapsed \div 256) % 256

\* BusIO::step: DIV after N cycles from reset is floor(N / 256) mod 256
DivRateIo == build = "iotimer" => io.div = (elapsed \div 256) % 256

\* GameBoy::update_timer: DIV after N cycles from reset is floor(N / 256) mod 256
DivRateLib == build = "gameboy" => mmu.io04 = (elapsed \div 256) % 256

\* C14: after steps totalling N T-cycles from reset (prescaler 0, no write to
\* DIV), DIV is floor(N / 256) mod 256 whatever the split into steps, in
\* Bus::step, BusIO::step and GameBoy::update_timer
DivRate == DivRateBus /\ DivRateIo /\ DivRateLib

\* the period TAC bits 1..0 select
SelectedPeriod(tac) ==
    CASE tac % 4 = 0 -> 1024
      [] tac % 4 = 1 -> 16
      [] tac % 4 = 2 -> 64
      [] tac % 4 = 3 -> 256

\* TIMA increments since TAC was written match the cycles since then
TimaRateIn(b) ==
    (build = b /\ ev.kind \in {"gb", "tac", "timer"})
        => IF Bit(TacOf, 2) = 1
           THEN ev.hist.ticks = ev.hist.since \div SelectedPeriod(TacOf)
           ELSE ev.hist.ticks = 0

TimaRateBus == TimaRateIn("bustimer")

TimaRateIo == TimaRateIn("iotimer")

TimaRateLib == TimaRateIn("gameboy")

\* C15: with TAC bit 2 set TIMA has advanced once per selected period of the
\* cycles consumed since TAC was written, leftover cycles carried from step
\* to step; with TAC bit 2 clear TIMA has not advanced
TimaRate == TimaRateBus /\ TimaRateIo /\ TimaRateLib

\* n timer ticks applied to TIMA: the value and whether 0xFF was passed
RECURSIVE RefTicks(_, _, _, _)
RefTicks(tima, tma, n, over) ==
    IF n = 0 THEN [tima |-> tima, over |-> over]
    ELSE IF tima = 255 THEN RefTicks(tma, tma, n - 1, TRUE)
    ELSE LET k == Min(n, 255 - tima) IN RefTicks(tima + k, tma, n - k, over)

\* the last step reloaded TIMA and raised IF bit 2 exactly on its overflows
ReloadExactIn(b) ==
    (build = b /\ ev.kind \in {"gb", "timer"})
        => LET r == RefTicks(ev.tm.pre_tima, ev.tm.tma, ev.tm.ticks, FALSE)
           IN /\ ev.tm.tima = r.tima
              /\ ev.tm.if2 = (IF r.over THEN 1 ELSE ev.tm.pre_if2)

ReloadExactBus == ReloadExactIn("bustimer")

ReloadExactLib == ReloadExactIn("gameboy")

ReloadExactTick == ReloadExactIn("tick")

\* C16: a step reloads TIMA from TMA and sets IF bit 2 exactly when one of
\* its timer ticks finds TIMA at 0xFF; a step without overflow leaves TIMA
\* at its incremented value and IF bit 2 as it was
ReloadExact == ReloadExactBus /\ ReloadExactLib /\ ReloadExactTick

(***************************************************************************)
(* GB/BUS.rs: cartridge mapping of Bus (load_rom, read_rom, write_mbc and  *)
(* the external RAM window of Bus::read)                                   *)
(***************************************************************************)
BankSize == 16384
RamBankSize == 8192

\* a cartridge image: its number of 16 KiB banks and the header bytes at
\* 0x0147 (cartridge type) and 0x0149 (RAM size)
Images ==
    {[banks |-> 64, type |-> 1, ram |-> 3], [banks |-> 32, type |-> 1, ram |-> 3],
     [banks |-> 4, type |-> 1, ram |-> 3], [banks |-> 4, type |-> 19, ram |-> 3],
     [banks |-> 4, type |-> 25, ram |-> 3], [banks |-> 2, type |-> 0, ram |-> 0]}

\* rom.len()
RomLen(img) == img.banks * BankSize

\* rom[i]: the header bytes, elsewhere a byte that tells the banks apart
RomByte(img, i) ==
    IF i = 327 THEN img.type
    ELSE IF i = 329 THEN img.ram
    ELSE ((i \div BankSize) + (i % BankSize)) % 256

\* the mapper a cartridge type byte selects
MbcOfType(t) ==
    CASE t \in {1, 2, 3} -> "Mbc1"
      [] t \in 15..19 -> "Mbc3"
      [] t \in 25..30 -> "Mbc5"
      [] OTHER -> "None"

\* the number of RAM banks a RAM size byte selects
RamBanksOfCode(code) ==
    CASE code = 2 -> 1
      [] code = 3 -> 4
      [] code = 4 -> 16
      [] code = 5 -> 8
      [] OTHER -> 0

\* Bus::new, cartridge fields
BusCartNew ==
    [kind |-> "bus", rom |-> [banks |-> 0, type |-> 0, ram |-> 0],
     rom_banks |-> 0, mbc |-> "None", ram_enable |-> FALSE,
     rom_bank |-> 1, ram_bank |-> 0, ext_ram_len |-> 0,
     mbc1_bank_low5 |-> 1, mbc1_bank_high2 |-> 0, mbc1_mode |-> 0,
     mbc3_rtc_sel |-> 0, ext_ram |-> {}, mbc3_rtc_regs |-> [i \in 0..4 |-> 0]]

\* Bus::load_rom
BusLoadRom(c, img) ==
    [c EXCEPT !.rom = img,
              !.rom_banks = (RomLen(img) + 16383) \div BankSize,
              !.mbc = MbcOfType(IF RomLen(img) > 327 THEN RomByte(img, 327) ELSE 0),
              !.ext_ram_len = RamBanksOfCode(IF RomLen(img) > 329
                                             THEN RomByte(img, 329) ELSE 0)
                              * RamBankSize,
              !.ram_enable = FALSE, !.rom_bank = 1, !.ram_bank = 0,
              !.mbc1_bank_low5 = 1, !.mbc1_bank_high2 = 0, !.mbc1_mode = 0,
              !.mbc3_rtc_sel = 0, !.ext_ram = {},
              !.mbc3_rtc_regs = [i \in 0..4 |-> 0]]

\* Bus::mbc1_calc_bank0
BusMbc1CalcBank0(c) ==
    IF c.mbc1_mode % 2 = 0 THEN 0 ELSE (c.mbc1_bank_high2 % 4) * 32

\* bank |= 1 when the low five bits are zero
ForceLowBit(bank) == IF bank % 32 = 0 THEN bank + 1 ELSE bank

\* Bus::mbc1_calc_bankX
BusMbc1CalcBankX(c) ==
    LET low5 == c.mbc1_bank_low5 % 32
    IN ForceLowBit(IF c.mbc1_mode % 2 = 0
                   THEN low5 + (c.mbc1_bank_high2 % 4) * 32
                   ELSE low5)

\* rom[i] when i < rom.len(), else 0xFF; off is the image offset read, -1
\* when the read fell outside the image
RomAt(img, i) ==
    IF i < RomLen(img) THEN [off |-> i, value |-> RomByte(img, i)]
    ELSE [off |-> -1, value |-> 255]

\* Bus::read_rom
BusReadRom(c, addr) ==
    IF c.rom_banks = 0 THEN [off |-> -1, value |-> 255]
    ELSE CASE c.mbc = "None" -> RomAt(c.rom, addr)
           [] c.mbc = "Mbc1" ->
                IF addr < 16384
                THEN RomAt(c.rom, (BusMbc1CalcBank0(c) % c.rom_banks) * BankSize + addr)
                ELSE RomAt(c.rom, (BusMbc1CalcBankX(c) % c.rom_banks) * BankSize
                                  + (addr - 16384))
           [] c.mbc = "Mbc3" ->
                IF addr < 16384 THEN RomAt(c.rom, addr)
                ELSE LET b == c.rom_bank % 128
                         bank == IF b = 0 THEN 1 ELSE b
                     IN RomAt(c.rom, (bank % c.rom_banks) * BankSize + (addr - 16384))
           [] c.mbc = "Mbc5" ->
                IF addr < 16384 THEN RomAt(c.rom, addr)
                ELSE RomAt(c.rom, (c.rom_bank % c.rom_banks) * BankSize
                                  + (addr - 16384))

\* Bus::write_mbc
BusWriteMbc(c, addr, val) ==
    CASE c.mbc = "Mbc1" ->
           (CASE addr < 8192 -> [c EXCEPT !.ram_enable = (val % 16 = 10)]
              [] addr \in 8192..16383 ->
                   [c EXCEPT !.mbc1_bank_low5 = IF val % 32 = 0 THEN 1 ELSE val % 32]
              [] addr \in 16384..24575 ->
                   [c EXCEPT !.mbc1_bank_high2 = val % 4,
                             !.ram_bank = IF c.mbc1_mode % 2 = 1 THEN val % 4 ELSE @]
              [] OTHER -> [c EXCEPT !.mbc1_mode = val % 2])
      [] c.mbc = "Mbc3" ->
           (CASE addr < 8192 -> [c EXCEPT !.ram_enable = (val % 16 = 10)]
              [] addr \in 8192..16383 ->
                   [c EXCEPT !.rom_bank = IF val % 128 = 0 THEN 1 ELSE val % 128]
              [] addr \in 16384..24575 ->
                   IF val % 16 <= 3
                   THEN [c EXCEPT !.ram_bank = val % 16, !.mbc3_rtc_sel = 0]
                   ELSE IF val % 16 \in 8..12
                        THEN [c EXCEPT !.mbc3_rtc_sel = val % 16]
                        ELSE c
              [] OTHER -> c)
      [] c.mbc = "Mbc5" ->
           (CASE addr < 8192 -> [c EXCEPT !.ram_enable = (val % 16 = 10)]
              [] addr \in 8192..12287 ->
                   [c EXCEPT !.rom_bank = (c.rom_bank \div 256) * 256 + val]
              [] addr \in 12288..16383 ->
                   [c EXCEPT !.rom_bank = (c.rom_bank % 256) + (val % 2) * 256]
              [] addr \in 16384..24575 -> [c EXCEPT !.ram_bank = val % 16]
              [] OTHER -> c)
      [] OTHER -> c

\* ext_ram.get(i).copied().unwrap_or(0xFF): the index read, -1 outside the RAM
ExtRamAt(c, i) == IF i < c.ext_ram_len THEN i ELSE -1

\* ext_ram[i]: ext_ram holds the cells written with a non-zero byte as pairs
\* <<index, byte>>, every other cell is 0
ExtRamByte(c, i) ==
    IF \E p \in c.ext_ram : p[1] = i
    THEN (CHOOSE p \in c.ext_ram : p[1] = i)[2]
    ELSE 0

\* the external RAM bank Bus::read and Bus::write use
BusExtRamBank(c) ==
    CASE c.mbc = "Mbc3" -> c.ram_bank % 4
      [] c.mbc = "Mbc1" -> IF c.mbc1_mode % 2 = 0 THEN 0 ELSE c.ram_bank % 4
      [] c.mbc = "Mbc5" -> c.ram_bank % 16
      [] OTHER -> 0

\* Bus::read, 0xA000..=0xBFFF: the external RAM bank in effect, the index
\* read (-1 when the read returns 0xFF, -2 when it reads an RTC register)
\* and the byte returned
BusReadExtRam(c, addr) ==
    LET off == (addr - 40960) % 8192
        i == BusExtRamBank(c) * RamBankSize + off
    IN IF c.mbc = "Mbc3" /\ c.mbc3_rtc_sel # 0
       THEN [bank |-> -1, idx |-> -2, value |-> c.mbc3_rtc_regs[c.mbc3_rtc_sel - 8]]
       ELSE IF c.ext_ram_len = 0 \/ ~c.ram_enable
       THEN [bank |-> -1, idx |-> -1, value |-> 255]
       ELSE [bank |-> BusExtRamBank(c), idx |-> ExtRamAt(c, i),
             value |-> IF i < c.ext_ram_len THEN ExtRamByte(c, i) ELSE 255]

\* Bus::write, 0xA000..=0xBFFF
BusWriteExtRam(c, addr, val) ==
    LET off == (addr - 40960) % 8192
        i == BusExtRamBank(c) * RamBankSize + off
    IN IF c.mbc = "Mbc3" /\ c.mbc3_rtc_sel # 0
       THEN [c EXCEPT !.mbc3_rtc_regs[c.mbc3_rtc_sel - 8] = val]
       ELSE IF c.ext_ram_len = 0 \/ ~c.ram_enable THEN c
       ELSE IF i < c.ext_ram_len
       THEN [c EXCEPT !.ext_ram = {p \in @ : p[1] # i}
                                  \cup (IF val = 0 THEN {} ELSE {<<i, val>>})]
       ELSE c

(***************************************************************************)
(* GB/bus_mem.rs: cartridge mapping of BusMem                              *)
(***************************************************************************)

\* BusMem::new, cartridge fields
MemCartNew ==
    [kind |-> "mem", rom |-> [banks |-> 0, type |-> 0, ram |-> 0],
     rom_banks |-> 0, mbc |-> "None", ram_enable |-> FALSE,
     rom_bank |-> 1, ram_bank |-> 0, ext_ram_len |-> 0,
     mbc1_bank_low5 |-> 1, mbc1_bank_high2 |-> 0, mbc1_mode |-> 0,
     mbc3_rtc_sel |-> 0]

\* BusMem::load_rom
MemLoadRom(c, img) ==
    [c EXCEPT !.rom = img,
              !.rom_banks = (RomLen(img) + 16383) \div BankSize,
              !.mbc = MbcOfType(IF RomLen(img) > 327 THEN RomByte(img, 327) ELSE 0),
              !.ext_ram_len = RamBanksOfCode(IF RomLen(img) > 329
                                             THEN RomByte(img, 329) ELSE 0)
                              * RamBankSize,
              !.ram_enable = FALSE, !.rom_bank = 1, !.ram_bank = 0,
              !.mbc1_bank_low5 = 1, !.mbc1_bank_high2 = 0, !.mbc1_mode = 0,
              !.mbc3_rtc_sel = 0]

\* BusMem::mbc1_calc_bank0
MemMbc1CalcBank0(c) ==
    IF c.mbc1_mode % 2 = 0 THEN 0 ELSE (c.mbc1_bank_high2 % 4) * 32

\* BusMem::mbc1_calc_bankX
MemMbc1CalcBankX(c) ==
    LET low5 == c.mbc1_bank_low5 % 32
    IN ForceLowBit(IF c.mbc1_mode % 2 = 0
                   THEN low5 + (c.mbc1_bank_high2 % 4) * 32
                   ELSE low5)

\* BusMem::read_rom
MemReadRom(c, addr) ==
    IF c.rom_banks = 0 THEN [off |-> -1, value |-> 255]
    ELSE CASE c.mbc = "None" -> RomAt(c.rom, addr)
           [] c.mbc = "Mbc1" ->
                IF addr < 16384
                THEN RomAt(c.rom, (MemMbc1CalcBank0(c) % c.rom_banks) * BankSize + addr)
                ELSE RomAt(c.rom, (MemMbc1CalcBankX(c) % c.rom_banks) * BankSize
                                  + (addr - 16384))
           [] c.mbc = "Mbc3" ->
                IF addr < 16384 THEN RomAt(c.rom, addr)
                ELSE LET b == c.rom_bank % 128
                         bank == IF b = 0 THEN 1 ELSE b
                     IN RomAt(c.rom, (bank % c.rom_banks) * BankSize + (addr - 16384))
           [] c.mbc = "Mbc5" ->
                IF addr < 16384 THEN RomAt(c.rom, addr)
                ELSE RomAt(c.rom, (c.rom_bank % c.rom_banks) * BankSize
                                  + (addr - 16384))

\* BusMem::write_mbc
MemWriteMbc(c, addr, val) ==
    CASE c.mbc = "Mbc1" ->
           (CASE addr < 8192 -> [c EXCEPT !.ram_enable = (val % 16 = 10)]
              [] addr \in 8192..16383 ->
                   [c EXCEPT !.mbc1_bank_low5 = IF val % 32 = 0 THEN 1 ELSE val % 32]
              [] addr \in 16384..24575 ->
                   [c EXCEPT !.mbc1_bank_high2 = val % 4,
                             !.ram_bank = IF c.mbc1_mode % 2 = 1 THEN val % 4 ELSE @]
              [] OTHER -> [c EXCEPT !.mbc1_mode = val % 2])
      [] c.mbc = "Mbc3" ->
           (CASE addr < 8192 -> [c EXCEPT !.ram_enable = (val % 16 = 10)]
              [] addr \in 8192..16383 ->
                   [c EXCEPT !.rom_bank = IF val % 128 = 0 THEN 1 ELSE val % 128]
              [] addr \in 16384..24575 ->
                   IF val % 16 <= 3
                   THEN [c EXCEPT !.ram_bank = val % 16, !.mbc3_rtc_sel = 0]
                   ELSE IF val % 16 \in 8..12
                        THEN [c EXCEPT !.mbc3_rtc_sel = val % 16]
                        ELSE c
              [] OTHER -> c)
      [] c.mbc = "Mbc5" ->
           (CASE addr < 8192 -> [c EXCEPT !.ram_enable = (val % 16 = 10)]
              [] addr \in 8192..12287 ->
                   [c EXCEPT !.rom_bank = (c.rom_bank \div 256) * 256 + val]
              [] addr \in 12288..16383 ->
                   [c EXCEPT !.rom_bank = (c.rom_bank % 256) + (val % 2) * 256]
              [] addr \in 16384..24575 -> [c EXCEPT !.ram_bank = val % 16]
              [] OTHER -> c)
      [] OTHER -> c

\* BusMem::read, 0xA000..=0xBFFF: the external RAM bank in effect and the
\* index read (-1 when the read returns 0xFF)
MemReadExtRam(c, addr) ==
    LET off == (addr - 40960) % 8192
    IN IF c.ext_ram_len = 0 \/ ~c.ram_enable THEN [bank |-> -1, idx |-> -1]
       ELSE LET bank == CASE c.mbc = "Mbc1" ->
                               IF c.mbc1_mode % 2 = 0 THEN 0 ELSE c.ram_bank % 4
                          [] c.mbc = "Mbc5" -> c.ram_bank % 16
                          [] OTHER -> 0
            IN [bank |-> bank, idx |-> ExtRamAt(c, bank * RamBankSize + off)]

(***************************************************************************)
(* core/mmu/mbc/mbc1.rs: MBC1                                              *)
(***************************************************************************)
\* MBC1::new; rom is the image of the cartridge the controller belongs to
Mbc1New(img) ==
    [kind |-> "mbc1", rom |-> img, ram_enabled |-> FALSE, rom_bank |-> 1,
     ram_bank |-> 0, mode |-> FALSE]

\* MBCController::write of MBC1
Mbc1Write(c, addr, value) ==
    CASE addr < 8192 -> [c EXCEPT !.ram_enabled = (value % 16 = 10)]
      [] addr \in 8192..16383 ->
           [c EXCEPT !.rom_bank = IF value % 32 = 0 THEN 1 ELSE value % 32]
      [] addr \in 16384..24575 -> [c EXCEPT !.ram_bank = value % 4]
      [] addr \in 24576..32767 -> [c EXCEPT !.mode = (value % 2 # 0)]
      [] OTHER -> c

\* MBCController::translate_rom_address of MBC1
Mbc1TranslateRomAddress(c, addr) ==
    IF addr < 16384 THEN addr
    ELSE IF addr < 32768 THEN c.rom_bank * BankSize + (addr - 16384)
    ELSE addr

\* MBCController::translate_ram_address of MBC1 (the sum is cast to u16)
Mbc1TranslateRamAddress(c, addr) ==
    IF ~c.ram_enabled THEN addr
    ELSE IF c.mode THEN (c.ram_bank * RamBankSize + addr) % 65536
    ELSE addr

(***************************************************************************)
(* core/mmu/mbc5.rs: MBC5                                                  *)
(***************************************************************************)
\* MBC5::new; rom is the image handed to read_rom
Mbc5New(img) ==
    [kind |-> "mbc5", rom |-> img, rom_bank |-> 1, ram_bank |-> 0,
     ram_enabled |-> FALSE]

\* MBC5::read_rom
Mbc5ReadRom(c, address) ==
    IF address < 16384
    THEN IF address >= RomLen(c.rom) THEN [off |-> -1, value |-> 255]
         ELSE [off |-> address, value |-> RomByte(c.rom, address)]
    ELSE IF address < 32768
    THEN LET offset == c.rom_bank * BankSize + (address - 16384)
         IN IF offset >= RomLen(c.rom) THEN [off |-> -1, value |-> 255]
            ELSE [off |-> offset, value |-> RomByte(c.rom, offset)]
    ELSE [off |-> -1, value |-> 255]

\* a zero bank number becomes 1
NonZeroBank(b) == IF b = 0 THEN 1 ELSE b

\* MBC5::write_rom
Mbc5WriteRom(c, address, value) ==
    CASE address < 8192 -> [c EXCEPT !.ram_enabled = (value % 16 = 10)]
      [] address \in 8192..12287 ->
           [c EXCEPT !.rom_bank = NonZeroBank((c.rom_bank \div 256) * 256 + value)]
      [] address \in 12288..16383 ->
           [c EXCEPT !.rom_bank = NonZeroBank((c.rom_bank % 256) + (value % 2) * 256)]
      [] address \in 16384..24575 -> [c EXCEPT !.ram_bank = value % 16]
      [] OTHER -> c

\* MBC5::write
Mbc5WriteOp(c, address, value) ==
    CASE address < 8192 -> [c EXCEPT !.ram_enabled = (value % 16 = 10)]
      [] address \in 8192..12287 ->
           [c EXCEPT !.rom_bank = (c.rom_bank \div 256) * 256 + value]
      [] address \in 12288..16383 ->
           [c EXCEPT !.rom_bank = (c.rom_bank % 256) + (value % 2) * 256]
      [] address \in 16384..24575 -> [c EXCEPT !.ram_bank = value % 16]
      [] OTHER -> c

(***************************************************************************)
(* Cartridge specification: control-register writes and reads through the  *)
(* mappers of Bus, BusMem, MBC1 and MBC5                                   *)
(***************************************************************************)
\* one control-register address per register window
MbcWriteAddrs == {0, 8192, 12288, 16384, 24576}
\* register values: bank numbers, the RAM enable key 0x0A, an RTC select
MbcWriteVals == {0, 1, 2, 3, 5, 8, 10}
\* the ends of the two ROM windows
RomReadAddrs == {0, 16383, 16384, 32767}
\* the ends of the external RAM window
RamReadAddrs == {40960, 49151}

\* the control registers that govern the external RAM window: RAM enable,
\* RAM bank or RTC select, MBC1 mode
RamControlAddrs == {0, 16384, 24576}
\* an address and a byte stored through the external RAM window
RamWriteAddrs == {40960}
RamWriteVals == {90}

\* Bus::load_rom
CartBusLoadRom(img) ==
    /\ build \in {"cartbus", "cartram"}
    /\ cart' = BusLoadRom(cart, img)
    /\ ev' = [kind |-> "load"]
    /\ UNCHANGED <<build, audio, bus, io, ppu, mmu, cpu, leg, elapsed>>

\* Bus::write, 0x0000..=0x7FFF
CartBusWrite(addr, val) ==
    /\ build = "cartbus" \/ (build = "cartram" /\ addr \in RamControlAddrs)
    /\ cart' = IF cart.rom_banks > 0 THEN BusWriteMbc(cart, addr, val) ELSE cart
    /\ ev' = [kind |-> "write", addr |-> addr, val |-> val]
    /\ UNCHANGED <<build, audio, bus, io, ppu, mmu, cpu, leg, elapsed>>

\* Bus::read, 0x0000..=0x7FFF with a ROM loaded
CartBusRead(addr) ==
    /\ build = "cartbus"
    /\ cart.rom_banks > 0
    /\ LET r == BusReadRom(cart, addr)
       IN ev' = [kind |-> "read", addr |-> addr, off |-> r.off, value |-> r.value]
    /\ UNCHANGED <<build, audio, cart, bus, io, ppu, mmu, cpu, leg, elapsed>>

\* Bus::read, 0xA000..=0xBFFF
CartBusReadRam(addr) ==
    /\ build \in {"cartbus", "cartram"}
    /\ ev' = [kind |-> "ramread", addr |-> addr,
              bank |-> BusReadExtRam(cart, addr).bank,
              idx |-> BusReadExtRam(cart, addr).idx,
              value |-> BusReadExtRam(cart, addr).value]
    /\ UNCHANGED <<build, audio, cart, bus, io, ppu, mmu, cpu, leg, elapsed>>

\* Bus::write, 0xA000..=0xBFFF
CartBusWriteRam(addr, val) ==
    /\ build = "cartram"
    /\ cart' = BusWriteExtRam(cart, addr, val)
    /\ ev' = [kind |-> "ramwrite", addr |-> addr, val |-> val,
              ext_ram |-> cart.ext_ram, rtc |-> cart.mbc3_rtc_regs]
    /\ UNCHANGED <<build, audio, bus, io, ppu, mmu, cpu, leg, elapsed>>

\* BusMem::load_rom
CartMemLoadRom(img) ==
    /\ build = "cartmem"
    /\ cart' = MemLoadRom(cart, img)
    /\ ev' = [kind |-> "load"]
    /\ UNCHANGED <<build, audio, bus, io, ppu, mmu, cpu, leg, elapsed>>

\* BusMem::write, 0x0000..=0x7FFF
CartMemWrite(addr, val) ==
    /\ build = "cartmem"
    /\ cart' = IF cart.rom_banks > 0 THEN MemWriteMbc(cart, addr, val) ELSE cart
    /\ ev' = [kind |-> "write", addr |-> addr, val |-> val]
    /\ UNCHANGED <<build, audio, bus, io, ppu, mmu, cpu, leg, elapsed>>

\* BusMem::read, 0x0000..=0x7FFF with a ROM loaded
CartMemRead(addr) ==
    /\ build = "cartmem"
    /\ cart.rom_banks > 0
    /\ LET r == MemReadRom(cart, addr)
       IN ev' = [kind |-> "read", addr |-> addr, off |-> r.off, value |-> r.value]
    /\ UNCHANGED <<build, audio, cart, bus, io, ppu, mmu, cpu, leg, elapsed>>

\* BusMem::read, 0xA000..=0xBFFF
CartMemReadRam(addr) ==
    /\ build = "cartmem"
    /\ LET r == MemReadExtRam(cart, addr)
       IN ev' = [kind |-> "ramread", addr |-> addr, bank |-> r.bank, idx |-> r.idx]
    /\ UNCHANGED <<build, audio, cart, bus, io, ppu, mmu, cpu, leg, elapsed>>

\* MBC1::write
Mbc1WriteReg(addr, val) ==
    /\ build = "mbc1"
    /\ cart' = Mbc1Write(cart, addr, val)
    /\ ev' = [kind |-> "write", addr |-> addr, val |-> val]
    /\ UNCHANGED <<build, audio, bus, io, ppu, mmu, cpu, leg, elapsed>>

\* MBC1::translate_rom_address
Mbc1TranslateRom(addr) ==
    /\ build = "mbc1"
    /\ ev' = [kind |-> "read", addr |-> addr,
              off |-> Mbc1TranslateRomAddress(cart, addr)]
    /\ UNCHANGED <<build, audio, cart, bus, io, ppu, mmu, cpu, leg, elapsed>>

\* MBC1::translate_ram_address
Mbc1TranslateRam(addr) ==
    /\ build = "mbc1"
    /\ ev' = [kind |-> "ramread", addr |-> addr,
              phys |-> Mbc1TranslateRamAddress(cart, addr)]
    /\ UNCHANGED <<build, audio, cart, bus, io, ppu, mmu, cpu, leg, elapsed>>

\* MBC5::write_rom
Mbc5WriteRomReg(addr, val) ==
    /\ build = "mbc5"
    /\ cart' = Mbc5WriteRom(cart, addr, val)
    /\ ev' = [kind |-> "write", entry |-> "write_rom", addr |-> addr, val |-> val]
    /\ UNCHANGED <<build, audio, bus, io, ppu, mmu, cpu, leg, elapsed>>

\* MBC5::write
Mbc5WriteReg(addr, val) ==
    /\ build = "mbc5"
    /\ cart' = Mbc5WriteOp(cart, addr, val)
    /\ ev' = [kind |-> "write", entry |-> "write", addr |-> addr, val |-> val]
    /\ UNCHANGED <<build, audio, bus, io, ppu, mmu, cpu, leg, elapsed>>

\* MBC5::read_rom
Mbc5Read(addr) ==
    /\ build = "mbc5"
    /\ LET r == Mbc5ReadRom(cart, addr)
       IN ev' = [kind |-> "read", addr |-> addr, off |-> r.off, value |-> r.value]
    /\ UNCHANGED <<build, audio, cart, bus, io, ppu, mmu, cpu, leg, elapsed>>

InitMBC ==
    /\ build \in {"cartbus", "cartram", "cartmem", "mbc1", "mbc5"}
    /\ audio = AudioNew
    /\ cart \in CASE build \in {"cartbus", "cartram"} -> {BusCartNew}
                  [] build = "cartmem" -> {MemCartNew}
                  [] build = "mbc1" ->
                       {Mbc1New(img) : img \in {i \in Images : MbcOfType(i.type) = "Mbc1"}}
                  [] OTHER ->
                       {Mbc5New(img) : img \in {i \in Images : MbcOfType(i.type) = "Mbc5"}}
    /\ bus = BusNew
    /\ io = BusIONew
    /\ ppu = PpuNew
    /\ mmu = MmuNew
    /\ cpu = CpuNew
    /\ leg = LegNew
    /\ elapsed = 0
    /\ ev = NoEvent

NextMBC ==
    \/ \E img \in Images : CartBusLoadRom(img)
    \/ \E a \in MbcWriteAddrs, v \in MbcWriteVals : CartBusWrite(a, v)
    \/ \E a \in RomReadAddrs : CartBusRead(a)
    \/ \E a \in RamReadAddrs : CartBusReadRam(a)
    \/ \E a \in RamWriteAddrs, v \in RamWriteVals : CartBusWriteRam(a, v)
    \/ \E img \in Images : CartMemLoadRom(img)
    \/ \E a \in MbcWriteAddrs, v \in MbcWriteVals : CartMemWrite(a, v)
    \/ \E a \in RomReadAddrs : CartMemRead(a)
    \/ \E a \in RamReadAddrs : CartMemReadRam(a)
    \/ \E a \in MbcWriteAddrs, v \in MbcWriteVals : Mbc1WriteReg(a, v)
    \/ \E a \in RomReadAddrs : Mbc1TranslateRom(a)
    \/ \E a \in RamReadAddrs : Mbc1TranslateRam(a)
    \/ \E a \in MbcWriteAddrs, v \in MbcWriteVals : Mbc5WriteRomReg(a, v)
    \/ \E a \in MbcWriteAddrs, v \in MbcWriteVals : Mbc5WriteReg(a, v)
    \/ \E a \in RomReadAddrs : Mbc5Read(a)

SpecMBC == InitMBC /\ [][NextMBC]_vars

(***************************************************************************)
(* Claims about the cartridge mappers                                      *)
(***************************************************************************)
\* 512 KiB
HalfMiB == 32 * BankSize

\* the low-window rule for one read: offset a in mode 0, offset 0x80000 + a
\* in mode 1 with the high register at 1
LowWindowRule(mode1, high2, addr, off) ==
    /\ ~mode1 => off = addr
    /\ (mode1 /\ high2 = 1) => off = HalfMiB + addr

\* Bus, MBC1 cartridge of at least 512 KiB: a low-window read follows the rule
\* and returns the ROM byte at that offset
LowWindowBus ==
    (build = "cartbus" /\ ev.kind = "read" /\ ev.addr < 16384
       /\ cart.mbc = "Mbc1" /\ RomLen(cart.rom) >= HalfMiB)
    => /\ LowWindowRule(cart.mbc1_mode = 1, cart.mbc1_bank_high2, ev.addr, ev.off)
       /\ ev.off >= 0 => ev.value = RomByte(cart.rom, ev.off)

\* MBC1 controller on a cartridge of at least 512 KiB: a low-window address
\* translates by the rule (the register at 0x4000 is its ram_bank field)
LowWindowCore ==
    (build = "mbc1" /\ ev.kind = "read" /\ ev.addr < 16384
       /\ RomLen(cart.rom) >= HalfMiB)
    => LowWindowRule(cart.mode, cart.ram_bank, ev.addr, ev.off)

\* C17: on an MBC1 cartridge of at least 512 KiB a read from address a in
\* 0x0000-0x3FFF returns the ROM byte at offset a in mode 0, and the ROM byte
\* at offset 0x80000 + a in mode 1 with bank_high2 = 1
Mbc1LowWindow == LowWindowBus /\ LowWindowCore

\* (bank_high2 << 5) | bank_low5, a zero bank_low5 taken as 1
Mbc1HighBank(high2, low5) == high2 * 32 + (IF low5 = 0 THEN 1 ELSE low5)

\* the high-window rule for one read of a bank the image has: the offset lies
\* in the bank the two registers select
HighWindowRule(img, high2, low5, addr, off) ==
    Mbc1HighBank(high2, low5) < img.banks
    => off = Mbc1HighBank(high2, low5) * BankSize + (addr - 16384)

\* Bus, MBC1: a high-window read follows the rule in both modes
HighWindowBus ==
    (build = "cartbus" /\ ev.kind = "read" /\ ev.addr >= 16384 /\ cart.mbc = "Mbc1")
    => HighWindowRule(cart.rom, cart.mbc1_bank_high2, cart.mbc1_bank_low5,
                      ev.addr, ev.off)

\* BusMem, MBC1: a high-window read follows the rule in both modes
HighWindowMem ==
    (build = "cartmem" /\ ev.kind = "read" /\ ev.addr >= 16384 /\ cart.mbc = "Mbc1")
    => HighWindowRule(cart.rom, cart.mbc1_bank_high2, cart.mbc1_bank_low5,
                      ev.addr, ev.off)

\* MBC1 controller: a high-window address translates by the rule in both
\* modes (its registers at 0x2000 and 0x4000 are rom_bank and ram_bank)
HighWindowCore ==
    (build = "mbc1" /\ ev.kind = "read" /\ ev.addr >= 16384)
    => HighWindowRule(cart.rom, cart.ram_bank, cart.rom_bank, ev.addr, ev.off)

\* C18: on MBC1 a read from 0x4000-0x7FFF uses ROM bank
\* (bank_high2 << 5) | bank_low5, with bank_low5 = 0 forced to 1, in both
\* banking modes
Mbc1HighWindow == HighWindowBus /\ HighWindowMem /\ HighWindowCore

\* the external RAM bank the two registers select: 0 in mode 0, the high
\* register in mode 1
Mbc1RamBank(mode1, high2) == IF mode1 THEN high2 ELSE 0

\* Bus, MBC1 with RAM enabled: the bank read is the bank the registers select
\* at the time of the read
RamBankBus ==
    (build = "cartbus" /\ ev.kind = "ramread" /\ cart.mbc = "Mbc1" /\ ev.bank >= 0)
    => /\ ev.bank = Mbc1RamBank(cart.mbc1_mode = 1, cart.mbc1_bank_high2)
       /\ ev.idx = ev.bank * RamBankSize + (ev.addr - 40960)

\* MBC1 controller with RAM enabled: the address is translated into the bank
\* the registers select at the time of the read
RamBankCore ==
    (build = "mbc1" /\ ev.kind = "ramread" /\ cart.ram_enabled)
    => ev.phys = Mbc1RamBank(cart.mode, cart.ram_bank) * RamBankSize + ev.addr

\* C19: on MBC1, after any sequence of control-register writes, the external
\* RAM bank in effect for 0xA000-0xBFFF is 0 when mbc1_mode = 0 and the
\* current bank_high2 when mbc1_mode = 1, whatever the order in which the
\* mode register and the high register were written
Mbc1RamBankInEffect == RamBankBus /\ RamBankCore

\* a read of address addr lands inside the image, at the position of addr
\* within its bank: the offset is that of some bank number reduced modulo the
\* bank count
BankReduced(img, addr, off) ==
    /\ off \in 0..(RomLen(img) - 1)
    /\ off % BankSize = addr % BankSize

\* Bus with a ROM loaded, every mapper: a ROM read is bank-reduced and
\* returns the byte of the image at that offset
BankReducedBus ==
    (build = "cartbus" /\ ev.kind = "read")
    => /\ BankReduced(cart.rom, ev.addr, ev.off)
       /\ ev.value = RomByte(cart.rom, ev.off)

\* MBC5 controller: a ROM read is bank-reduced
BankReducedMbc5 ==
    (build = "mbc5" /\ ev.kind = "read")
    => BankReduced(cart.rom, ev.addr, ev.off)

\* MBC1 controller: a translated ROM address is bank-reduced
BankReducedMbc1 ==
    (build = "mbc1" /\ ev.kind = "read")
    => BankReduced(cart.rom, ev.addr, ev.off)

\* C20: for every mapper and every control-register state the bank used to
\* index ROM is reduced modulo the cartridge's bank count, so a read in
\* 0x0000-0x7FFF never indexes outside the ROM image
RomBankReduced == BankReducedBus /\ BankReducedMbc5 /\ BankReducedMbc1

\* the 9-bit bank number after value v is written to the low register
\* (0x2000-0x2FFF) or the bit-8 register (0x3000-0x3FFF) while the bank
\* number is b; no value is mapped to another
Mbc5BankAfter(b, addr, v) ==
    IF addr = 8192 THEN (b \div 256) * 256 + v
    ELSE IF addr = 12288 THEN (b % 256) + (v % 2) * 256
    ELSE b

\* Bus on an MBC5 cartridge: a control write leaves the 9-bit bank number
\* formed from the two registers
Mbc5BankBus ==
    [][(build = "cartbus" /\ cart.mbc = "Mbc5" /\ ev'.kind = "write")
       => cart'.rom_bank = Mbc5BankAfter(cart.rom_bank, ev'.addr, ev'.val)]_vars

\* MBC5::write_rom leaves the 9-bit bank number formed from the two registers
Mbc5BankWriteRom ==
    [][(build = "mbc5" /\ ev'.kind = "write" /\ ev'.entry = "write_rom")
       => cart'.rom_bank = Mbc5BankAfter(cart.rom_bank, ev'.addr, ev'.val)]_vars

\* MBC5::write leaves the 9-bit bank number formed from the two registers
Mbc5BankWrite ==
    [][(build = "mbc5" /\ ev'.kind = "write" /\ ev'.entry = "write")
       => cart'.rom_bank = Mbc5BankAfter(cart.rom_bank, ev'.addr, ev'.val)]_vars

\* C21: on MBC5 the selected ROM bank is the 9-bit value (bit8 << 8) | low8
\* of the most recent writes to the two bank registers, in whichever order
\* they were written, and the value 0 selects bank 0
Mbc5NineBitBank == Mbc5BankBus /\ Mbc5BankWriteRom /\ Mbc5BankWrite

\* Bus, every mapper: with RAM disabled a read of 0xA000-0xBFFF returns 0xFF
RamDisabledRead ==
    (build \in {"cartbus", "cartram"} /\ ev.kind = "ramread" /\ ~cart.ram_enable)
    => ev.value = 255

\* Bus, every mapper: with RAM disabled a write to 0xA000-0xBFFF leaves the
\* external RAM and the RTC registers as they were before the write
RamDisabledWrite ==
    (build = "cartram" /\ ev.kind = "ramwrite" /\ ~cart.ram_enable)
    => /\ cart.ext_ram = ev.ext_ram
       /\ cart.mbc3_rtc_regs = ev.rtc

\* C22: whenever ram_enable is false, every read of 0xA000-0xBFFF returns
\* 0xFF and every write there changes no external RAM or RTC state, for
\* every mapper
RamDisabledInert == RamDisabledRead /\ RamDisabledWrite

(***************************************************************************)
(* STAT interrupt specification: the PPU of Bus and the PPU of the core    *)
(* with the STAT enable bits and LYC written by the program                *)
(***************************************************************************)
\* cycles per call: up to the end of modes 2, 3 and 0, and 36 scanlines
StatBatches == {80, 172, 204, 16416}
\* LCDC on and off, STAT enable masks for bits 3 to 6, LYC, cleared IF
StatWrites ==
    {<<65344, 145>>, <<65344, 17>>, <<65345, 8>>, <<65345, 16>>, <<65345, 32>>,
     <<65345, 64>>, <<65349, 1>>, <<65295, 0>>}
\* PPU steps taken
MaxStatSteps == 5

\* Bus::read of 0xFF41: bit 7, the enable bits, coincidence and the mode
BusReadStat(b) ==
    128 + And8(b.stat_w, 120) + (IF b.ly = b.lyc THEN 4 ELSE 0) + (b.ppu_mode % 4)

\* Bus::write of 0xFF40, 0xFF41, 0xFF45 and 0xFF0F
BusWriteLcdReg(b, addr, v) ==
    CASE addr = 65344 -> BusWriteLcdc(b, v)
      [] addr = 65345 -> [b EXCEPT !.stat_w = And8(v, 120)]
      [] addr = 65349 -> [b EXCEPT !.lyc = v]
      [] addr = 65295 -> BusWriteIf(b, v)

\* the level of the STAT interrupt line a STAT register value shows: the OR
\* of the enabled sources mode 0, mode 1, mode 2 and coincidence
StatLine(stat) ==
    \/ Bit(stat, 3) = 1 /\ stat % 4 = 0
    \/ Bit(stat, 4) = 1 /\ stat % 4 = 1
    \/ Bit(stat, 5) = 1 /\ stat % 4 = 2
    \/ Bit(stat, 6) = 1 /\ Bit(stat, 2) = 1

\* steps taken so far
StatSteps == IF ev.kind \in {"stat", "lcdreg", "vram"} THEN ev.steps ELSE 0

\* what one PPU step did to the STAT line and to IF bit 1
StatEvent(lcdc, pre_stat, pre_ifl, stat, ifl) ==
    [kind |-> "stat", steps |-> StatSteps + 1, lcd_on |-> Bit(lcdc, 7) = 1,
     pre_line |-> StatLine(pre_stat), pre_if1 |-> Bit(pre_ifl, 1),
     line |-> StatLine(stat), if1 |-> Bit(ifl, 1)]

\* Bus::step left b1
StatBusCommit(b1) ==
    /\ bus' = b1
    /\ ev' = StatEvent(bus.lcdc, BusReadStat(bus), bus.ifl, BusReadStat(b1), b1.ifl)

\* Bus::step, PPU section
StatBusStep(c) ==
    /\ build = "busstat"
    /\ StatSteps < MaxStatSteps
    /\ StatBusCommit(BusStepPpu(bus, c))
    /\ UNCHANGED <<build, audio, cart, io, ppu, mmu, cpu, leg, elapsed>>

\* the write clears IF bit 1 right after a step that left the STAT line high
\* with IF bit 1 set
StatCleared(w) ==
    /\ w[1] = 65295
    /\ Bit(w[2], 1) = 0
    /\ ev.kind = "stat"
    /\ ev.lcd_on
    /\ ev.line
    /\ ev.if1 = 1

\* Bus::write of an LCD register or IF
StatBusWrite(w) ==
    /\ build = "busstat"
    /\ bus' = BusWriteLcdReg(bus, w[1], w[2])
    /\ ev' = [kind |-> "lcdreg", steps |-> StatSteps,
              cleared |-> StatCleared(w)]
    /\ UNCHANGED <<build, audio, cart, io, ppu, mmu, cpu, leg, elapsed>>

\* PPU::step left r
StatCoreCommit(r) ==
    /\ ppu' = r.ppu
    /\ mmu' = r.mmu
    /\ ev' = StatEvent(MmuReadByte(mmu, 65344), MmuReadByte(mmu, 65345),
                       mmu.interrupt_flags, MmuReadByte(r.mmu, 65345),
                       r.mmu.interrupt_flags)

\* PPU::step
StatCoreStep(c) ==
    /\ build = "corestat"
    /\ StatSteps < MaxStatSteps
    /\ StatCoreCommit(PpuStep(ppu, mmu, c))
    /\ UNCHANGED <<build, audio, cart, bus, io, cpu, leg, elapsed>>

\* MMU::write_byte of an LCD register or IF
StatCoreWrite(w) ==
    /\ build = "corestat"
    /\ mmu' = MmuWriteByte(mmu, w[1], w[2])
    /\ ev' = [kind |-> "lcdreg", steps |-> StatSteps]
    /\ UNCHANGED <<build, audio, cart, bus, io, ppu, cpu, leg, elapsed>>

\* a byte stored to VRAM
VramVals == {165}

\* Bus::read of 0x8000: 0xFF in mode 3 with the LCD on
StatBusVramRead ==
    /\ build = "busstat"
    /\ ev' = [kind |-> "vram", steps |-> StatSteps, op |-> "read",
              locked |-> (Bit(bus.lcdc, 7) = 1 /\ bus.ppu_mode = 3),
              value |-> IF Bit(bus.lcdc, 7) = 1 /\ bus.ppu_mode = 3
                        THEN 255 ELSE bus.vram,
              pre_vram |-> bus.vram]
    /\ UNCHANGED <<build, audio, cart, bus, io, ppu, mmu, cpu, leg, elapsed>>

\* Bus::write of 0x8000: ignored in mode 3 with the LCD on
StatBusVramWrite(v) ==
    /\ build = "busstat"
    /\ bus' = IF Bit(bus.lcdc, 7) = 1 /\ bus.ppu_mode = 3 THEN bus
              ELSE [bus EXCEPT !.vram = v]
    /\ ev' = [kind |-> "vram", steps |-> StatSteps, op |-> "write",
              locked |-> (Bit(bus.lcdc, 7) = 1 /\ bus.ppu_mode = 3),
              value |-> v, pre_vram |-> bus.vram]
    /\ UNCHANGED <<build, audio, cart, io, ppu, mmu, cpu, leg, elapsed>>

\* MMU::read_byte of 0x8000
StatCoreVramRead ==
    /\ build = "corestat"
    /\ ev' = [kind |-> "vram", steps |-> StatSteps, op |-> "read",
              locked |-> (Bit(MmuReadByte(mmu, 65344), 7) = 1 /\ ppu.current_mode = 3),
              value |-> MmuReadByte(mmu, 32768), pre_vram |-> mmu.vram]
    /\ UNCHANGED <<build, audio, cart, bus, io, ppu, mmu, cpu, leg, elapsed>>

\* MMU::write_byte of 0x8000
StatCoreVramWrite(v) ==
    /\ build = "corestat"
    /\ mmu' = MmuWriteByte(mmu, 32768, v)
    /\ ev' = [kind |-> "vram", steps |-> StatSteps, op |-> "write",
              locked |-> (Bit(MmuReadByte(mmu, 65344), 7) = 1 /\ ppu.current_mode = 3),
              value |-> v, pre_vram |-> mmu.vram]
    /\ UNCHANGED <<build, audio, cart, bus, io, ppu, cpu, leg, elapsed>>

InitStat ==
    /\ build \in {"busstat", "corestat"}
    /\ audio = AudioNew
    /\ bus = BusNew
    /\ cart = NoCart
    /\ io = BusIONew
    /\ ppu = PpuNew
    /\ mmu = MmuNew
    /\ cpu = CpuNew
    /\ leg = LegNew
    /\ elapsed = 0
    /\ ev = NoEvent

NextStat ==
    \/ \E c \in StatBatches : StatBusStep(c)
    \/ \E w \in StatWrites : StatBusWrite(w)
    \/ \E c \in StatBatches : StatCoreStep(c)
    \/ \E w \in StatWrites : StatCoreWrite(w)
    \/ StatBusVramRead
    \/ \E v \in VramVals : StatBusVramWrite(v)
    \/ StatCoreVramRead
    \/ \E v \in VramVals : StatCoreVramWrite(v)

SpecStat == InitStat /\ [][NextStat]_vars

\* a PPU step with the LCD on that takes the STAT line from low to high
\* leaves IF bit 1 set
StatEdgeRaises ==
    (ev.kind = "stat" /\ ev.lcd_on /\ ~ev.pre_line /\ ev.line) => ev.if1 = 1

\* Bus::step raises IF bit 1 on a rising edge of the STAT line
StatEdgeBus == build = "busstat" => StatEdgeRaises

\* PPU::step with update_lcd_status raises IF bit 1 on a rising edge of the
\* STAT line
StatEdgeCore == build = "corestat" => StatEdgeRaises

\* C23: IF bit 1 (LCD STAT) is raised on every rising edge of the OR of the
\* enabled STAT sources: mode 0 entry (STAT bit 3), mode 1 entry (bit 4),
\* mode 2 entry (bit 5) and LY = LYC coincidence (bit 6)
StatInterruptOnEdge == StatEdgeBus /\ StatEdgeCore

\* a VRAM access made while the LCD is on and the PPU is in mode 3: a read
\* returns 0xFF and a write leaves the byte in VRAM as it was
VramLocked(vram) ==
    (ev.kind = "vram" /\ ev.locked)
    => /\ ev.op = "read" => ev.value = 255
       /\ ev.op = "write" => vram = ev.pre_vram

\* Bus::read and Bus::write block VRAM in mode 3
VramLockedBus == build = "busstat" => VramLocked(bus.vram)

\* MMU::read_byte and MMU::write_byte block VRAM in mode 3
VramLockedCore == build = "corestat" => VramLocked(mmu.vram)

\* C24: while the LCD is on and the PPU is in mode 3, every CPU read of
\* 0x8000-0x9FFF returns 0xFF and every CPU write there leaves VRAM
\* unchanged
VramBlockedInMode3 == VramLockedBus /\ VramLockedCore

(***************************************************************************)
(* OAM DMA: Bus::write of 0xFF46 (GB/BUS.rs), BusMem::write of 0xFF46     *)
(* (GB/bus_mem.rs) and the DMA section of BusIO::step (GB/bus_io.rs)       *)
(***************************************************************************)
OamBase == 65024
OamLen == 160
\* one byte every 4 T-cycles (BusIO::step): the length of a transfer
DmaWindow == 4 * OamLen

\* self.ram of Bus: the cell 0x8000 is the field vram
BusRamRead(b, a) == IF a = 32768 THEN b.vram ELSE RamRead(b.ram, a)

BusRamWrite(b, a, v) ==
    IF a = 32768 THEN [b EXCEPT !.vram = v]
    ELSE [b EXCEPT !.ram = RamWrite(b.ram, a, v)]

\* Bus::read with no ROM loaded, outside external RAM and the I/O page
\* (0xFF46 excepted)
BusRead(b, addr) ==
    IF addr = 65350 THEN b.dma
    ELSE IF addr >= 32768 /\ addr <= 40959
    THEN (IF Bit(b.lcdc, 7) = 1 /\ b.ppu_mode = 3 THEN 255
          ELSE BusRamRead(b, addr))
    ELSE IF addr >= OamBase /\ addr < OamBase + OamLen
    THEN (IF Bit(b.lcdc, 7) = 1 /\ b.ppu_mode \in {2, 3} THEN 255
          ELSE BusRamRead(b, addr))
    ELSE BusRamRead(b, addr)

\* the copy loop of Bus::write(0xFF46, _): the source is read with Bus::read,
\* the destination written straight into RAM. A source page is 256-aligned,
\* so a source cell is never an OAM cell written earlier in the loop and the
\* 160 iterations are taken in one go
BusDmaCopy(b, src_base) ==
    [b EXCEPT !.ram =
        {p \in b.ram : p[1] < OamBase \/ p[1] >= OamBase + OamLen}
        \cup {<<OamBase + i, BusRead(b, (src_base + i) % 65536)>> :
                 i \in {j \in 0..(OamLen - 1) :
                           BusRead(b, (src_base + j) % 65536) # 0}}]

\* Bus::write with no ROM loaded, for 0xFF46, VRAM, OAM and plain RAM
BusWrite(b, addr, val) ==
    IF addr = 65350
    THEN BusDmaCopy([b EXCEPT !.dma = val], (val * 256) % 65536)
    ELSE IF addr >= 32768 /\ addr <= 40959
    THEN (IF Bit(b.lcdc, 7) = 1 /\ b.ppu_mode = 3 THEN b
          ELSE BusRamWrite(b, addr, val))
    ELSE IF addr >= OamBase /\ addr < OamBase + OamLen
    THEN (IF Bit(b.lcdc, 7) = 1 /\ b.ppu_mode \in {2, 3} THEN b
          ELSE BusRamWrite(b, addr, val))
    ELSE BusRamWrite(b, addr, val)

\* BusMem::read with no ROM loaded, outside external RAM and the I/O page:
\* every region is read from RAM
MemRead(s, addr) == RamRead(s.mem_ram, addr)

\* BusMem::write with no ROM loaded, for 0xFF46, 0xFF40 and plain RAM
MemWrite(s, addr, val) ==
    IF addr = 65350
    THEN [s EXCEPT !.dma_active = TRUE, !.dma_pos = 0,
                   !.dma_start_delay = 1, !.dma_cycle_accum = 0]
    ELSE IF addr = 65344 THEN IoWriteLcdc(s, val)
    ELSE [s EXCEPT !.mem_ram = RamWrite(s.mem_ram, addr, val)]

\* the while loop of the DMA section of BusIO::step: n iterations, each
\* copying RAM cell dma_pos to OAM cell dma_pos; the cells read lie below
\* 0x00A0 and are not written by the loop, so the iterations are taken in
\* one go
IoDmaLoop(s) ==
    LET n == IF s.dma_pos < OamLen
             THEN Min(s.dma_cycle_accum \div 4, OamLen - s.dma_pos)
             ELSE 0
        moved == s.dma_pos..(s.dma_pos + n - 1)
    IN [s EXCEPT
          !.dma_cycle_accum = s.dma_cycle_accum - 4 * n,
          !.mem_ram =
              {p \in s.mem_ram : p[1] - OamBase \notin moved}
              \cup {<<OamBase + k, RamRead(s.mem_ram, (0 + k) % 65536)>> :
                       k \in {j \in moved : RamRead(s.mem_ram, (0 + j) % 65536) # 0}},
          !.dma_pos = s.dma_pos + n]

\* BusIO::step, DMA section
IoStepDma(s, c) ==
    IF ~s.dma_active THEN s
    ELSE IF s.dma_start_delay > 0
    THEN (IF c >= s.dma_start_delay THEN [s EXCEPT !.dma_start_delay = 0]
          ELSE [s EXCEPT !.dma_start_delay = s.dma_start_delay - c])
    ELSE LET s1 == IoDmaLoop([s EXCEPT !.dma_cycle_accum = s.dma_cycle_accum + c])
         IN IF s1.dma_pos >= OamLen THEN [s1 EXCEPT !.dma_active = FALSE] ELSE s1

\* Bus::step and BusIO::step, all sections
BusStepAll(b, c) == BusStepPpu(BusStepTimer(b, c).bus, c)

IoStepAll(s, c) == IoStepPpu(IoStepDma(IoStepTimer(s, c).io, c), c)

(***************************************************************************)
(* OAM DMA machine: Bus ("busdma") and BusMem with BusIO ("iodma").        *)
(* elapsed counts the T-cycles stepped since the last write to 0xFF46      *)
(* (it stops at DmaWindow); ev keeps the page of that write, whether RAM   *)
(* was written since, and the last access                                  *)
(***************************************************************************)
DmaBatches == {80, 640}
DmaPages == {128, 192}
DmaWriteAddrs == {32769, 49152, 65408}
DmaReadAddrs == {49152, 65408}
DmaVals == {90}
MaxDmaSteps == 3

DmaHist ==
    IF ev.kind = "dma" THEN ev
    ELSE [kind |-> "dma", op |-> "none", steps |-> 0, started |-> FALSE,
          clean |-> TRUE, page |-> 0, completed |-> FALSE,
          addr |-> 0, value |-> 0, stored |-> 0]

\* Bus::step
DmaBusStep(c) ==
    /\ build = "busdma"
    /\ DmaHist.steps < MaxDmaSteps
    /\ bus' = BusStepAll(bus, c)
    /\ elapsed' = Min(elapsed + c, DmaWindow)
    /\ ev' = [DmaHist EXCEPT !.op = "step", !.steps = @ + 1, !.completed = FALSE,
                             !.addr = 0, !.value = 0, !.stored = 0]
    /\ UNCHANGED <<build, audio, cart, io, ppu, mmu, cpu, leg>>

\* Bus::write(0xFF40, 0x91)
DmaBusLcdOn ==
    /\ build = "busdma"
    /\ bus' = BusWriteLcdReg(bus, 65344, 145)
    /\ ev' = [DmaHist EXCEPT !.op = "lcdc", !.completed = FALSE,
                             !.addr = 0, !.value = 0, !.stored = 0]
    /\ UNCHANGED <<build, audio, cart, io, ppu, mmu, cpu, leg, elapsed>>

\* Bus::write of a RAM cell
DmaBusWrite(a, v) ==
    /\ build = "busdma"
    /\ bus' = BusWrite(bus, a, v)
    /\ ev' = [DmaHist EXCEPT !.op = "write", !.clean = FALSE, !.completed = FALSE,
                             !.addr = a, !.value = v, !.stored = 0]
    /\ UNCHANGED <<build, audio, cart, io, ppu, mmu, cpu, leg, elapsed>>

\* Bus::write(0xFF46, v): the copy is done when the write returns
DmaBusStart(v) ==
    /\ build = "busdma"
    /\ bus' = BusWrite(bus, 65350, v)
    /\ elapsed' = 0
    /\ ev' = [DmaHist EXCEPT !.op = "start", !.started = TRUE, !.clean = TRUE,
                             !.page = v, !.completed = TRUE,
                             !.addr = 65350, !.value = v, !.stored = 0]
    /\ UNCHANGED <<build, audio, cart, io, ppu, mmu, cpu, leg>>

\* Bus::read of a RAM cell
DmaBusRead(a) ==
    /\ build = "busdma"
    /\ ev' = [DmaHist EXCEPT !.op = "read", !.completed = FALSE, !.addr = a,
                             !.value = BusRead(bus, a),
                             !.stored = BusRamRead(bus, a)]
    /\ UNCHANGED <<build, audio, cart, bus, io, ppu, mmu, cpu, leg, elapsed>>

\* BusIO::step
DmaIoStep(c) ==
    /\ build = "iodma"
    /\ DmaHist.steps < MaxDmaSteps
    /\ io' = IoStepAll(io, c)
    /\ elapsed' = Min(elapsed + c, DmaWindow)
    /\ ev' = [DmaHist EXCEPT !.op = "step", !.steps = @ + 1,
                             !.completed = io.dma_active /\ ~io'.dma_active,
                             !.addr = 0, !.value = 0, !.stored = 0]
    /\ UNCHANGED <<build, audio, cart, bus, ppu, mmu, cpu, leg>>

\* BusMem::write(0xFF40, 0x91, io, ..)
DmaIoLcdOn ==
    /\ build = "iodma"
    /\ io' = MemWrite(io, 65344, 145)
    /\ ev' = [DmaHist EXCEPT !.op = "lcdc", !.completed = FALSE,
                             !.addr = 0, !.value = 0, !.stored = 0]
    /\ UNCHANGED <<build, audio, cart, bus, ppu, mmu, cpu, leg, elapsed>>

\* BusMem::write of a RAM cell
DmaIoWrite(a, v) ==
    /\ build = "iodma"
    /\ io' = MemWrite(io, a, v)
    /\ ev' = [DmaHist EXCEPT !.op = "write", !.clean = FALSE, !.completed = FALSE,
                             !.addr = a, !.value = v, !.stored = 0]
    /\ UNCHANGED <<build, audio, cart, bus, ppu, mmu, cpu, leg, elapsed>>

\* BusMem::write(0xFF46, v, io, ..): arms the transfer BusIO::step performs
DmaIoStart(v) ==
    /\ build = "iodma"
    /\ io' = MemWrite(io, 65350, v)
    /\ elapsed' = 0
    /\ ev' = [DmaHist EXCEPT !.op = "start", !.started = TRUE, !.clean = TRUE,
                             !.page = v, !.completed = FALSE,
                             !.addr = 65350, !.value = v, !.stored = 0]
    /\ UNCHANGED <<build, audio, cart, bus, ppu, mmu, cpu, leg>>

\* BusMem::read of a RAM cell
DmaIoRead(a) ==
    /\ build = "iodma"
    /\ ev' = [DmaHist EXCEPT !.op = "read", !.completed = FALSE, !.addr = a,
                             !.value = MemRead(io, a),
                             !.stored = RamRead(io.mem_ram, a)]
    /\ UNCHANGED <<build, audio, cart, bus, io, ppu, mmu, cpu, leg, elapsed>>

InitDma ==
    /\ build \in {"busdma", "iodma"}
    /\ audio = AudioNew
    /\ bus = BusNew
    /\ cart = NoCart
    /\ io = BusIONew
    /\ ppu = PpuNew
    /\ mmu = MmuNew
    /\ cpu = CpuNew
    /\ leg = LegNew
    /\ elapsed = 0
    /\ ev = NoEvent

NextDma ==
    \/ \E c \in DmaBatches : DmaBusStep(c)
    \/ DmaBusLcdOn
    \/ \E a \in DmaWriteAddrs, v \in DmaVals : DmaBusWrite(a, v)
    \/ \E v \in DmaPages : DmaBusStart(v)
    \/ \E a \in DmaReadAddrs : DmaBusRead(a)
    \/ \E c \in DmaBatches : DmaIoStep(c)
    \/ DmaIoLcdOn
    \/ \E a \in DmaWriteAddrs, v \in DmaVals : DmaIoWrite(a, v)
    \/ \E v \in DmaPages : DmaIoStart(v)
    \/ \E a \in DmaReadAddrs : DmaIoRead(a)

SpecDma == InitDma /\ [][NextDma]_vars

\* C25: for the 640 T-cycles after a write to 0xFF46 a read outside HRAM
\* (0xFF80-0xFFFE) returns 0xFF and an HRAM read returns the stored byte
DmaReadRule ==
    (ev.kind = "dma" /\ ev.op = "read" /\ ev.started /\ elapsed < DmaWindow)
        => IF ev.addr >= 65408 /\ ev.addr <= 65534
           THEN ev.value = ev.stored
           ELSE ev.value = 255

\* C25, the part about HRAM alone
DmaHramReadable ==
    (ev.kind = "dma" /\ ev.op = "read" /\ ev.addr >= 65408 /\ ev.addr <= 65534)
        => ev.value = ev.stored

\* C25 in Bus
DmaWindowBus == build = "busdma" => DmaReadRule

\* C25 in BusMem with BusIO
DmaWindowIo == build = "iodma" => DmaReadRule

\* C25: reads outside HRAM return 0xFF during the 640 T-cycles that follow a
\* write to 0xFF46, HRAM reads return the stored byte, in both buses
DmaBlocksReads == DmaWindowBus /\ DmaWindowIo

\* OAM byte i equals the byte stored at (page << 8) + i for every i in 0..160
OamIsCopyOf(ram_read(_), page) ==
    \A i \in 0..(OamLen - 1) :
        ram_read(OamBase + i) = ram_read((page * 256 + i) % 65536)

BusCell(a) == BusRamRead(bus, a)

IoCell(a) == RamRead(io.mem_ram, a)

\* a transfer has just completed and no RAM cell was written since it started
DmaJustDone == ev.kind = "dma" /\ ev.completed /\ ev.clean

\* C26 in Bus
DmaCopyBus == (build = "busdma" /\ DmaJustDone) => OamIsCopyOf(BusCell, ev.page)

\* C26 in BusMem with BusIO
DmaCopyIo == (build = "iodma" /\ DmaJustDone) => OamIsCopyOf(IoCell, ev.page)

\* C26: once the OAM DMA started by writing v to 0xFF46 has completed, OAM byte
\* 0xFE00+i equals the byte stored at (v << 8) + i for every i in 0..160,
\* whatever the PPU mode, in both buses
DmaCopiesPage == DmaCopyBus /\ DmaCopyIo

(***************************************************************************)
(* core/cpu/registers.rs: the writers of the private field af, and POP AF  *)
(* and PUSH AF of core/cpu/mod.rs                                          *)
(***************************************************************************)
\* variant of set_af that keeps the low nibble
SetAfUnmasked(c, value) == [c EXCEPT !.af = value]

\* Registers::set_af: af = value & 0xFFF0
SetAf(c, value) == [c EXCEPT !.af = value - (value % 16)]

\* Registers::set_f: af = (af & 0xFF00) | (value & 0xF0)
SetF(c, value) == [c EXCEPT !.af = (c.af \div 256) * 256 + (value - (value % 16))]

\* Registers::set_a: af = (af & 0x00FF) | (value << 8)
SetA(c, value) == [c EXCEPT !.af = (c.af % 256) + 256 * value]

\* Registers::get_f and get_af
GetF(c) == c.af % 256

GetAf(c) == c.af

\* FlagOperations for Registers: set_zero (bit 7), set_subtract (6),
\* set_half_carry (5), set_carry (4), each through Flags::set_flag
SetFlag(c, bit, value) ==
    LET flags == c.af % 256
        flags1 == IF value THEN SetBit(flags, bit) ELSE ClearBit(flags, bit)
    IN [c EXCEPT !.af = (c.af \div 256) * 256 + flags1]

\* CPU::pop_af: pop_word, then set_af
PopAf(c, m) ==
    LET r == PopWord(c, m)
    IN SetAf(r.cpu, r.value)

\* CPU::push_af: push_word(get_af())
PushAf(c, m) == PushWord(c, m, GetAf(c))

RegWords == {0, 65535, 4671, 432}
RegBytes == {0, 255, 15, 165}
FlagBits == {4, 5, 6, 7}

RegSetAf(v) ==
    /\ build = "regs"
    /\ cpu' = SetAf(cpu, v)
    /\ ev' = [kind |-> "regs", op |-> "set_af", value |-> v]
    /\ UNCHANGED <<build, audio, cart, bus, io, ppu, mmu, leg, elapsed>>

RegSetF(v) ==
    /\ build = "regs"
    /\ cpu' = SetF(cpu, v)
    /\ ev' = [kind |-> "regs", op |-> "set_f", value |-> v]
    /\ UNCHANGED <<build, audio, cart, bus, io, ppu, mmu, leg, elapsed>>

RegSetA(v) ==
    /\ build = "regs"
    /\ cpu' = SetA(cpu, v)
    /\ ev' = [kind |-> "regs", op |-> "set_a", value |-> v]
    /\ UNCHANGED <<build, audio, cart, bus, io, ppu, mmu, leg, elapsed>>

RegSetFlag(bit, b) ==
    /\ build = "regs"
    /\ cpu' = SetFlag(cpu, bit, b)
    /\ ev' = [kind |-> "regs", op |-> "set_flag", value |-> bit]
    /\ UNCHANGED <<build, audio, cart, bus, io, ppu, mmu, leg, elapsed>>

\* push_word of an arbitrary word on the empty stack
RegPushWord(v) ==
    /\ build = "regs"
    /\ cpu.sp = StackTop
    /\ cpu' = PushWord(cpu, mmu, v).cpu
    /\ mmu' = PushWord(cpu, mmu, v).mmu
    /\ ev' = [kind |-> "regs", op |-> "push_word", value |-> v]
    /\ UNCHANGED <<build, audio, cart, bus, io, ppu, leg, elapsed>>

\* PUSH AF on the empty stack
RegPushAf ==
    /\ build = "regs"
    /\ cpu.sp = StackTop
    /\ cpu' = PushAf(cpu, mmu).cpu
    /\ mmu' = PushAf(cpu, mmu).mmu
    /\ ev' = [kind |-> "regs", op |-> "push_af", value |-> cpu.af]
    /\ UNCHANGED <<build, audio, cart, bus, io, ppu, leg, elapsed>>

\* POP AF of the word pushed last
RegPopAf ==
    /\ build = "regs"
    /\ cpu.sp < StackTop
    /\ cpu' = PopAf(cpu, mmu)
    /\ ev' = [kind |-> "regs", op |-> "pop_af", value |-> PopWord(cpu, mmu).value]
    /\ UNCHANGED <<build, audio, cart, bus, io, ppu, mmu, leg, elapsed>>

InitRegs ==
    /\ build = "regs"
    /\ audio = AudioNew
    /\ bus = BusNew
    /\ cart = NoCart
    /\ io = BusIONew
    /\ ppu = PpuNew
    /\ mmu = MmuNew
    /\ cpu = CpuNew
    /\ leg = LegNew
    /\ elapsed = 0
    /\ ev = NoEvent

NextRegs ==
    \/ \E v \in RegWords : RegSetAf(v)
    \/ \E v \in RegBytes : RegSetF(v)
    \/ \E v \in RegBytes : RegSetA(v)
    \/ \E bit \in FlagBits, b \in BOOLEAN : RegSetFlag(bit, b)
    \/ \E v \in RegWords : RegPushWord(v)
    \/ RegPushAf
    \/ RegPopAf

SpecRegs == InitRegs /\ [][NextRegs]_vars

\* C27: after every register setter and after POP AF, whatever the value
\* written, the low 4 bits of F are zero
FLowNibbleZero == build = "regs" => GetF(cpu) % 16 = 0

\* POP AF has just loaded a word whose low nibble was not zero
FLowNibbleCase ==
    /\ build = "regs"
    /\ ev.kind = "regs" /\ ev.op = "pop_af"
    /\ ev.value % 16 # 0
    /\ cpu.af = ev.value - (ev.value % 16)

(***************************************************************************)
(* push_word and pop_word: core/cpu/mod.rs ("corestack") and the stubs of  *)
(* core/cpu/cpu.rs ("legstack")                                            *)
(***************************************************************************)
\* stack pointers tried: high RAM, the byte after the unused area
\* 0xFEA0-0xFEFF, and ROM
StackSps == {65534, 65532, 65280, 2}
StackWords == {0, 1, 4660, 43981, 65535}

\* cpu.rs CPU::push_word: a stub that drops the value
LegPushWord(l, value) == l

\* cpu.rs CPU::pop_word: a stub that returns 0
LegPopWord(l) == [leg |-> l, value |-> 0]

\* Registers::set_sp
StackSetSp(sp) ==
    /\ build = "corestack"
    /\ cpu' = [cpu EXCEPT !.sp = sp]
    /\ ev' = [kind |-> "stack", op |-> "set_sp"]
    /\ UNCHANGED <<build, audio, cart, bus, io, ppu, mmu, leg, elapsed>>

\* core/cpu/mod.rs CPU::push_word(v)
StackPush(v) ==
    /\ build = "corestack"
    /\ cpu.sp \in StackSps
    /\ cpu' = PushWord(cpu, mmu, v).cpu
    /\ mmu' = PushWord(cpu, mmu, v).mmu
    /\ ev' = [kind |-> "stack", op |-> "push", pushed |-> v, sp_before |-> cpu.sp]
    /\ UNCHANGED <<build, audio, cart, bus, io, ppu, leg, elapsed>>

\* core/cpu/mod.rs CPU::pop_word() straight after a push_word
StackPop ==
    /\ build = "corestack"
    /\ ev.kind = "stack" /\ ev.op = "push"
    /\ cpu' = PopWord(cpu, mmu).cpu
    /\ ev' = [kind |-> "stack", op |-> "pop", pushed |-> ev.pushed,
              sp_before |-> ev.sp_before, value |-> PopWord(cpu, mmu).value,
              sp_after |-> PopWord(cpu, mmu).cpu.sp]
    /\ UNCHANGED <<build, audio, cart, bus, io, ppu, mmu, leg, elapsed>>

\* cpu.rs CPU::push_word(v)
LegStackPush(v) ==
    /\ build = "legstack"
    /\ leg' = LegPushWord(leg, v)
    /\ ev' = [kind |-> "stack", op |-> "push", pushed |-> v, sp_before |-> leg.sp]
    /\ UNCHANGED <<build, audio, cart, bus, io, ppu, mmu, cpu, elapsed>>

\* cpu.rs CPU::pop_word() straight after a push_word
LegStackPop ==
    /\ build = "legstack"
    /\ ev.kind = "stack" /\ ev.op = "push"
    /\ leg' = LegPopWord(leg).leg
    /\ ev' = [kind |-> "stack", op |-> "pop", pushed |-> ev.pushed,
              sp_before |-> ev.sp_before, value |-> LegPopWord(leg).value,
              sp_after |-> LegPopWord(leg).leg.sp]
    /\ UNCHANGED <<build, audio, cart, bus, io, ppu, mmu, cpu, elapsed>>

InitStack ==
    /\ build \in {"corestack", "legstack"}
    /\ audio = AudioNew
    /\ bus = BusNew
    /\ cart = NoCart
    /\ io = BusIONew
    /\ ppu = PpuNew
    /\ mmu = MmuNew
    /\ cpu = CpuNew
    /\ leg = LegNew
    /\ elapsed = 0
    /\ ev = NoEvent

NextStack ==
    \/ \E sp \in StackSps : StackSetSp(sp)
    \/ \E v \in StackWords : StackPush(v)
    \/ StackPop
    \/ \E v \in StackWords : LegStackPush(v)
    \/ LegStackPop

SpecStack == InitStack /\ [][NextStack]_vars

\* the pop that follows a push returns the word pushed and restores SP
PushPopRule ==
    (ev.kind = "stack" /\ ev.op = "pop")
        => (ev.value = ev.pushed /\ ev.sp_after = ev.sp_before)

\* C28 in core/cpu/mod.rs
PushPopCore == build = "corestack" => PushPopRule

\* C28 in core/cpu/mod.rs with the stack pointer in high RAM
PushPopCoreHram ==
    (build = "corestack" /\ ev.kind = "stack" /\ ev.op = "pop"
        /\ ev.sp_before \in {65534, 65532}) => PushPopRule

\* C28 in core/cpu/cpu.rs
PushPopLeg == build = "legstack" => PushPopRule

\* C28: for any 16-bit v and any stack pointer, push_word(v) followed by
\* pop_word() returns v and leaves SP where it was before the push
PushPopRoundTrip == PushPopCore /\ PushPopLeg

(***************************************************************************)
(* The first step from the post-boot state: GameBoy::step ("gbboot") and   *)
(* CPU::step of core/cpu/mod.rs ("cpuboot")                                *)
(***************************************************************************)
\* CPU::step: fetch_byte moves PC over the opcode, then decode_and_execute
CpuStepOp(c, m, op) == DecodeAndExecuteOp([c EXCEPT !.pc = Wrap16(c.pc + 1)], m, op)

\* CPU::step left r
CpuStepCommit(op, r) ==
    /\ r.cpu.sp \in StackCells
    /\ cpu' = r.cpu
    /\ mmu' = r.mmu
    /\ elapsed' = elapsed + r.cycles
    /\ ev' = [kind |-> "cpustep", op |-> op, pre_pc |-> cpu.pc,
              status |-> r.status, cycles |-> r.cycles]

\* CPU::step with op the byte at PC
CpuStep(op) ==
    /\ build = "cpuboot"
    /\ cpu.instruction_count < MaxInstructions
    /\ CpuStepCommit(op, CpuStepOp(cpu, mmu, op))
    /\ UNCHANGED <<build, audio, cart, bus, io, ppu, leg>>

InitBoot ==
    /\ build \in {"gbboot", "cpuboot"}
    /\ audio = AudioNew
    /\ bus = BusNew
    /\ cart = NoCart
    /\ io = BusIONew
    /\ ppu = PpuNew
    /\ mmu = MmuNew
    /\ cpu = CpuNew
    /\ leg = LegNew
    /\ elapsed = 0
    /\ ev = NoEvent

NextBoot ==
    \/ \E op \in GbOpcodes : GameBoyStep(op)
    \/ \E op \in GbOpcodes : CpuStep(op)

SpecBoot == InitBoot /\ [][NextBoot]_vars

\* after the step: PC = 0x0101, 4 cycles counted, F as CPU::new left it
NopStepRule == cpu.pc = 257 /\ elapsed = 4 /\ GetF(cpu) = GetF(CpuNew)

\* C29 in GameBoy::step
NopStepGb ==
    (build = "gbboot" /\ ev.kind = "gb" /\ ev.op = NOP /\ cpu.instruction_count = 1)
        => NopStepRule

\* C29 in CPU::step
NopStepCpu ==
    (build = "cpuboot" /\ ev.kind = "cpustep" /\ ev.op = NOP
        /\ cpu.instruction_count = 1) => NopStepRule

\* C29: from the post-boot state with NOP at 0x0100, one step leaves
\* PC = 0x0101, adds 4 to the cycle count and leaves the flags unchanged
NopFirstStep == NopStepGb /\ NopStepCpu

(***************************************************************************)
(* JP nn: jump::dispatch reached from CPU::step ("jpdispatch"), CPU::jump  *)
(* of core/cpu/mod.rs ("jpcore") and CPU::jump of core/cpu/cpu_impl.rs     *)
(* ("jpimpl"), each entered with PC on the byte after the opcode           *)
(***************************************************************************)
JP == 195

\* CYCLES_3 of the cycle table (core/cpu/cycles.rs) and CYCLES_12 of
\* core/cpu/mod.rs
CYCLES_3 == 12
CYCLES_12 == 12

\* addresses the opcode is placed at, and operands
JpAddrs == {256, 335, 272, 512}
JpTargets == {336, 4660, 49152}

\* the cells of cartridge_rom around a JP nn placed at address at: the
\* opcode, the operand low byte first, and two NOPs
Program(at, target) ==
    [a \in at..(at + 4) |->
        IF a = at THEN JP
        ELSE IF a = at + 1 THEN target % 256
        ELSE IF a = at + 2 THEN target \div 256
        ELSE NOP]

\* core/cpu/mod.rs CPU::fetch_word: at PC 0x0101 and 0x0150 one byte is
\* skipped first, then two fetch_byte calls
FetchWord(c, m) ==
    LET pc1 == IF c.pc \in {257, 336} THEN c.pc + 1 ELSE c.pc
        low == MmuReadByte(m, pc1)
        high == MmuReadByte(m, Wrap16(pc1 + 1))
    IN [cpu |-> [c EXCEPT !.pc = Wrap16(pc1 + 2)], value |-> high * 256 + low]

\* core/cpu/cpu.rs CPU::fetch_word: two fetch_byte calls (cpu_impl.rs
\* defines none of its own)
PlainFetchWord(c, m) ==
    [cpu |-> [c EXCEPT !.pc = Wrap16(c.pc + 2)],
     value |-> MmuReadByte(m, Wrap16(c.pc + 1)) * 256 + MmuReadByte(m, c.pc)]

\* jump::dispatch, the arm of 0xC3
JumpDispatch(c, m) ==
    [cpu |-> [FetchWord(c, m).cpu EXCEPT !.pc = FetchWord(c, m).value],
     status |-> "ok", cycles |-> CYCLES_3]

\* instructions::execute for 0xC3: the logo-area skip, else jump::dispatch
ExecuteJp(c, m) ==
    IF InLogo(c.pc) THEN [cpu |-> [c EXCEPT !.pc = 336], status |-> "ok", cycles |-> 4]
    ELSE JumpDispatch(c, m)

\* CPU::step on 0xC3: fetch_byte, decode_and_execute, instructions::execute,
\* then the interrupt check
StepJp(c, m) ==
    LET c0 == [c EXCEPT !.pc = Wrap16(c.pc + 1),
                        !.instruction_count = c.instruction_count + 1]
        x == ExecuteJp(c0, m)
    IN [cpu |-> CheckAndHandleInterrupts(x.cpu, m).cpu, status |-> x.status,
        cycles |-> x.cycles]

\* core/cpu/mod.rs CPU::jump: a jump only at PC 0x0101 and 0x0150
CoreJump(c, m) ==
    IF c.pc # 257 /\ c.pc # 336
    THEN [cpu |-> c, status |-> "ok", cycles |-> CYCLES_4]
    ELSE [cpu |-> [FetchWord(c, m).cpu EXCEPT !.pc = FetchWord(c, m).value],
          status |-> "ok", cycles |-> CYCLES_12]

\* core/cpu/cpu_impl.rs CPU::jump: a target at or above 0x8000 is an error
ImplJump(c, m) ==
    IF PlainFetchWord(c, m).value >= 32768
    THEN [cpu |-> PlainFetchWord(c, m).cpu, status |-> "err", cycles |-> 0]
    ELSE [cpu |-> [PlainFetchWord(c, m).cpu EXCEPT !.pc = PlainFetchWord(c, m).value],
          status |-> "ok", cycles |-> CYCLES_16]

\* the cartridge holds JP target at address at and PC is set there
JpLoad(at, target) ==
    /\ build \in {"jpdispatch", "jpcore", "jpimpl"}
    /\ mmu' = [mmu EXCEPT !.rom = Program(at, target)]
    /\ cpu' = [cpu EXCEPT !.pc = at]
    /\ ev' = [kind |-> "jpload", at |-> at, target |-> target]
    /\ UNCHANGED <<build, audio, cart, bus, io, ppu, leg, elapsed>>

\* the jump left r
JpCommit(r) ==
    /\ cpu' = r.cpu
    /\ elapsed' = r.cycles
    /\ ev' = [kind |-> "jp", at |-> ev.at, target |-> ev.target,
              status |-> r.status, cycles |-> r.cycles]
    /\ UNCHANGED <<build, audio, cart, bus, io, ppu, mmu, leg>>

\* CPU::step on the JP just loaded
JpStepDispatch ==
    /\ build = "jpdispatch"
    /\ cpu.instruction_count < MaxInstructions
    /\ ev.kind = "jpload"
    /\ JpCommit(StepJp(cpu, mmu))

\* fetch_byte, then CPU::jump of core/cpu/mod.rs
JpStepCore ==
    /\ build = "jpcore"
    /\ ev.kind = "jpload"
    /\ JpCommit(CoreJump([cpu EXCEPT !.pc = Wrap16(cpu.pc + 1)], mmu))

\* fetch_byte, then CPU::jump of core/cpu/cpu_impl.rs
JpStepImpl ==
    /\ build = "jpimpl"
    /\ ev.kind = "jpload"
    /\ JpCommit(ImplJump([cpu EXCEPT !.pc = Wrap16(cpu.pc + 1)], mmu))

InitJump ==
    /\ build \in {"jpdispatch", "jpcore", "jpimpl"}
    /\ audio = AudioNew
    /\ bus = BusNew
    /\ cart = NoCart
    /\ io = BusIONew
    /\ ppu = PpuNew
    /\ mmu = MmuNew
    /\ cpu = CpuNew
    /\ leg = LegNew
    /\ elapsed = 0
    /\ ev = NoEvent

NextJump ==
    \/ \E at \in JpAddrs, target \in JpTargets : JpLoad(at, target)
    \/ JpStepDispatch
    \/ JpStepCore
    \/ JpStepImpl

SpecJump == InitJump /\ [][NextJump]_vars

\* PC is the operand and the instruction cost 16 T-cycles
JpRule ==
    ev.kind = "jp" => (ev.status = "ok" /\ cpu.pc = ev.target /\ ev.cycles = 16)

\* the part of the rule about PC, away from 0x0100, 0x014F and the logo area
JpTargetElsewhere ==
    (build = "jpdispatch" /\ ev.kind = "jp" /\ ev.at = 512) => cpu.pc = ev.target

\* C30 in jump::dispatch
JpDispatchRule == build = "jpdispatch" => JpRule

\* C30 in CPU::jump of core/cpu/mod.rs
JpCoreRule == build = "jpcore" => JpRule

\* C30 in CPU::jump of core/cpu/cpu_impl.rs
JpImplRule == build = "jpimpl" => JpRule

\* C30: JP nn at any PC sets PC to the 16-bit little-endian operand that
\* follows the opcode and costs 16 T-cycles
JpSetsPc == JpDispatchRule /\ JpCoreRule /\ JpImplRule

(***************************************************************************)
(* Interrupt vectors: CPU::check_and_handle_interrupts of core/cpu/mod.rs  *)
(* and the dispatch at the head of CPU::step of core/cpu/cpu.rs            *)
(***************************************************************************)
\* PC after bit b was dispatched is mult * b above 0x40; in cpu.rs the step
\* goes on to fetch the opcode at the vector, which moves PC one byte on
VectorRule(mult) ==
    /\ (ev.kind = "step" /\ ev.serviced # {}) =>
          \A b \in ev.serviced : cpu.pc = 64 + mult * b
    /\ (ev.kind = "leg" /\ ev.ime /\ Pending(ev.iflags, ev.ie) # 0) =>
          leg.pc = 64 + mult * Lowest(Pending(ev.iflags, ev.ie)) + 1

\* C31 as stated: servicing interrupt bit b sets PC to the vector 0x40 + 5*b
VectorFiveApart == VectorRule(5)

\* C31, amended: servicing interrupt bit b sets PC to the vector 0x40 + 8*b
\* (0x40 VBlank, 0x48 STAT, 0x50 Timer, 0x58 Serial, 0x60 Joypad)
VectorEightApart == VectorRule(8)

\* the Timer interrupt (bit 2) was dispatched alone and PC is 0x50
TimerVectorTaken ==
    /\ ev.kind = "step"
    /\ ev.serviced = {2}
    /\ cpu.pc = 80

(***************************************************************************)
(* C32: what a read of 0xFF44 returns in the core PPU/MMU pair             *)
(***************************************************************************)
\* C32: with the LCD on, a CPU read of 0xFF44 returns the PPU's current line
\* on each of the lines 145-153 of VBlank (the register is left alone by the
\* CPU here: io_registers[0x44] is what update_lcd_status last stored)
LyReadInVBlank ==
    (build = "core" /\ LcdOn /\ ppu.current_line \in 145..153) =>
        MmuReadByte(mmu, 65348) = ppu.current_line

(***************************************************************************)
(* C33: the position a step leaves behind while the LCD is off             *)
(***************************************************************************)
\* the position is reset and the reads of 0xFF41 and 0xFF44 report it
BusOffPosition(b) ==
    /\ b.ppu_mode = 0
    /\ b.ly = 0
    /\ b.ppu_line_cycle = 0
    /\ BusReadStat(b) % 4 = 0

IoOffPosition(s) ==
    /\ s.ppu_mode = 0
    /\ s.ly = 0
    /\ s.ppu_line_cycle = 0

\* Bus::step with LCDC bit 7 clear leaves mode 0, LY 0 and dot 0
LcdOffResetBus ==
    [][((\E c \in Batches : BusStep(c)) /\ Bit(bus.lcdc, 7) = 0)
          => BusOffPosition(bus')]_vars

\* BusIO::step with LCDC bit 7 clear leaves mode 0, LY 0 and dot 0
LcdOffResetIo ==
    [][((\E c \in Batches : IoStep(c)) /\ Bit(io.lcdc, 7) = 0)
          => IoOffPosition(io')]_vars

\* C33: once LCDC has been written with bit 7 clear, a step finds the PPU in
\* mode 0 with LY = 0 and dot = 0, which is what STAT and LY reads then report
LcdOffResets == LcdOffResetBus /\ LcdOffResetIo

(***************************************************************************)
(* interface/audio.rs: EmuAudioCallback::callback; main.rs: audio set-up   *)
(***************************************************************************)
\* AudioInterface::new_from_sdl: source_freq
SourceFreq == 44100
\* (sr / 64.0) as usize, (sr / 256.0) as usize, (sr / 128.0) as usize
EnvStep == SourceFreq \div 64
LenStep == SourceFreq \div 256
SweepStep == SourceFreq \div 128

\* the `if sweep_counter == 0' block
SweepClock(s) ==
    IF s.ch1_sweep_period > 0 /\ s.ch1_enable
    THEN LET t == IF s.ch1_sweep_timer > 0 THEN s.ch1_sweep_timer - 1
                  ELSE s.ch1_sweep_timer
             delta == s.ch1_sweep_shadow \div Pow2(s.ch1_sweep_shift)
             new_freq == IF s.ch1_sweep_negate THEN s.ch1_sweep_shadow - delta
                         ELSE s.ch1_sweep_shadow + delta
         IN IF t = 0
            THEN IF new_freq > 2047 \/ new_freq < 0
                 THEN [s EXCEPT !.ch1_sweep_timer = s.ch1_sweep_period,
                                !.ch1_enable = FALSE]
                 ELSE [s EXCEPT !.ch1_sweep_timer = s.ch1_sweep_period,
                                !.ch1_sweep_shadow = new_freq]
            ELSE [s EXCEPT !.ch1_sweep_timer = t]
    ELSE s

\* one channel's part of the `if env_counter == 0' block
EnvChannel(period, dir, volume, timer) ==
    IF period > 0
    THEN LET t == IF timer > 0 THEN timer - 1 ELSE timer
         IN IF t = 0
            THEN [timer |-> period,
                  volume |-> IF dir = 1 /\ volume < 15 THEN volume + 1
                             ELSE IF dir = -1 /\ volume > 0 THEN volume - 1
                             ELSE volume]
            ELSE [timer |-> t, volume |-> volume]
    ELSE [timer |-> timer, volume |-> volume]

EnvClock(s) ==
    LET e1 == EnvChannel(s.ch1_env_period, s.ch1_env_dir, s.ch1_env_volume, s.ch1_env_timer)
        e2 == EnvChannel(s.ch2_env_period, s.ch2_env_dir, s.ch2_env_volume, s.ch2_env_timer)
    IN [s EXCEPT !.ch1_env_timer = e1.timer, !.ch1_env_volume = e1.volume,
                 !.ch2_env_timer = e2.timer, !.ch2_env_volume = e2.volume]

\* the `if len_counter == 0' block
LenClock(s) ==
    LET s1 == IF s.ch1_length_enable /\ s.ch1_length > 0
              THEN [s EXCEPT !.ch1_length = s.ch1_length - 1,
                             !.ch1_enable = IF s.ch1_length = 1 THEN FALSE
                                            ELSE s.ch1_enable]
              ELSE s
    IN IF s1.ch2_length_enable /\ s1.ch2_length > 0
       THEN [s1 EXCEPT !.ch2_length = s1.ch2_length - 1,
                       !.ch2_enable = IF s1.ch2_length = 1 THEN FALSE
                                      ELSE s1.ch2_enable]
       ELSE s1

\* the body of `for _ in 0..requested' at iteration i: the three counters are
\* locals that start at 0 and advance by one modulo their step each iteration,
\* so at iteration i they hold i % step
CallbackSample(a, i) ==
    LET sw == i % SweepStep = 0
        en == i % EnvStep = 0
        ln == i % LenStep = 0
        s1 == IF sw THEN SweepClock(a.synth) ELSE a.synth
        s2 == IF en THEN EnvClock(s1) ELSE s1
        s3 == IF ln THEN LenClock(s2) ELSE s2
    IN [a EXCEPT !.synth = s3,
                 !.samples = a.samples + 1,
                 !.sweep_ticks = a.sweep_ticks + (IF sw THEN 1 ELSE 0),
                 !.env_ticks = a.env_ticks + (IF en THEN 1 ELSE 0),
                 !.len_ticks = a.len_ticks + (IF ln THEN 1 ELSE 0)]

\* first iteration after i at which one of the three counters is 0 again
NextClock(i) ==
    Min(Min(((i \div SweepStep) + 1) * SweepStep, ((i \div EnvStep) + 1) * EnvStep),
        ((i \div LenStep) + 1) * LenStep)

\* `for _ in 0..requested', entered at an iteration i where a counter is 0:
\* the iterations up to the next such one only emit a sample each
RECURSIVE CallbackLoop(_, _, _)
CallbackLoop(a, i, requested) ==
    IF i >= requested THEN a
    ELSE LET nxt == Min(NextClock(i), requested)
             a1 == CallbackSample(a, i)
         IN CallbackLoop([a1 EXCEPT !.samples = a1.samples + (nxt - i - 1)],
                         nxt, requested)

\* the synth as constructed, and one with both channels programmed (every
\* field is pub): lengths 2 and 3, envelopes falling from 3, sweep up from 1024
SynthPlaying ==
    [SynthDefault EXCEPT
        !.ch1_enable = TRUE, !.ch1_length = 2, !.ch1_length_enable = TRUE,
        !.ch2_enable = TRUE, !.ch2_length = 3, !.ch2_length_enable = TRUE,
        !.ch1_env_period = 1, !.ch1_env_dir = -1, !.ch1_env_volume = 3, !.ch1_env_timer = 1,
        !.ch2_env_period = 2, !.ch2_env_dir = -1, !.ch2_env_volume = 3, !.ch2_env_timer = 2,
        !.ch1_sweep_period = 1, !.ch1_sweep_shift = 1, !.ch1_sweep_timer = 1,
        !.ch1_sweep_shadow = 1024]
AudioSynths == {SynthDefault, SynthPlaying}
\* sample counts the host asks for in one callback
AudioRequests == {1, 172, 344, 689}
\* callbacks the host makes
MaxCallbacks == 3

\* main: `if let Some(v) = user_volume { if let Ok(mut s) = synth.lock()'
MainLockSynth ==
    /\ build = "audio"
    /\ audio.main = "new"
    /\ audio.lock = "free"
    /\ audio' = [audio EXCEPT !.main = "locked", !.lock = "main"]
    /\ UNCHANGED <<build, cart, bus, io, ppu, mmu, cpu, leg, elapsed, ev>>

\* main: `s.master_gain = v' and the guard dropped at the end of the block
MainSetGain ==
    /\ build = "audio"
    /\ audio.main = "locked"
    /\ audio' = [audio EXCEPT !.main = "created", !.lock = "free",
                              !.synth.master_gain = "user"]
    /\ UNCHANGED <<build, cart, bus, io, ppu, mmu, cpu, leg, elapsed, ev>>

\* main with user_volume = None
MainNoVolume ==
    /\ build = "audio"
    /\ audio.main = "new"
    /\ audio' = [audio EXCEPT !.main = "created"]
    /\ UNCHANGED <<build, cart, bus, io, ppu, mmu, cpu, leg, elapsed, ev>>

\* BusAPU::attach_synth: the bus keeps a clone of the Arc
AttachSynth ==
    /\ build = "audio"
    /\ audio.main = "created"
    /\ audio' = [audio EXCEPT !.main = "attached", !.bus_synth = TRUE]
    /\ UNCHANGED <<build, cart, bus, io, ppu, mmu, cpu, leg, elapsed, ev>>

\* main: AudioInterface::new_from_sdl and start(): the host may call back
MainStartAudio ==
    /\ build = "audio"
    /\ audio.main = "attached"
    /\ audio' = [audio EXCEPT !.main = "running"]
    /\ UNCHANGED <<build, cart, bus, io, ppu, mmu, cpu, leg, elapsed, ev>>

\* callback entry: Vec::<f32>::with_capacity(requested) takes heap memory
CallbackEnter(requested) ==
    /\ build = "audio"
    /\ audio.main = "running"
    /\ audio.cb = "idle"
    /\ audio.callbacks < MaxCallbacks
    /\ audio' = [audio EXCEPT !.cb = "lock", !.requested = requested,
                              !.allocs = audio.allocs + 1]
    /\ UNCHANGED <<build, cart, bus, io, ppu, mmu, cpu, leg, elapsed, ev>>

\* self.synth.lock().unwrap(): returns once the Mutex is free
CallbackLock ==
    /\ build = "audio"
    /\ audio.cb = "lock"
    /\ audio.lock = "free"
    /\ audio' = [audio EXCEPT !.cb = "loop", !.lock = "callback"]
    /\ UNCHANGED <<build, cart, bus, io, ppu, mmu, cpu, leg, elapsed, ev>>

\* the sample loop
CallbackGenerate ==
    /\ build = "audio"
    /\ audio.cb = "loop"
    /\ audio' = [CallbackLoop(audio, 0, audio.requested) EXCEPT !.cb = "put"]
    /\ UNCHANGED <<build, cart, bus, io, ppu, mmu, cpu, leg, elapsed, ev>>

\* stream.put_data_f32(&out) and the return: the guard is dropped
CallbackReturn ==
    /\ build = "audio"
    /\ audio.cb = "put"
    /\ audio' = [audio EXCEPT !.cb = "idle", !.lock = "free",
                              !.callbacks = audio.callbacks + 1]
    /\ UNCHANGED <<build, cart, bus, io, ppu, mmu, cpu, leg, elapsed, ev>>

InitAudio ==
    /\ build = "audio"
    /\ audio \in {[AudioNew EXCEPT !.synth = s] : s \in AudioSynths}
    /\ bus = BusNew
    /\ cart = NoCart
    /\ io = BusIONew
    /\ ppu = PpuNew
    /\ mmu = MmuNew
    /\ cpu = CpuNew
    /\ leg = LegNew
    /\ elapsed = 0
    /\ ev = NoEvent

NextAudio ==
    \/ MainLockSynth
    \/ MainSetGain
    \/ MainNoVolume
    \/ AttachSynth
    \/ MainStartAudio
    \/ \E r \in AudioRequests : CallbackEnter(r)
    \/ CallbackLock
    \/ CallbackGenerate
    \/ CallbackReturn

SpecAudio == InitAudio /\ [][NextAudio]_vars

\* clockings of a unit with the given step in n consecutive samples
ClocksIn(n, step) == (n + step - 1) \div step

LenRate == audio.len_ticks = ClocksIn(audio.samples, LenStep)
EnvRate == audio.env_ticks = ClocksIn(audio.samples, EnvStep)
SweepRate == audio.sweep_ticks = ClocksIn(audio.samples, SweepStep)

\* C34: the length counters are clocked every 1/256 s, the envelopes every
\* 1/64 s and the sweep every 1/128 s of the samples produced so far, however
\* the samples were divided among callbacks
FrameSequencerRates == LenRate /\ EnvRate /\ SweepRate

\* the callback has taken no heap memory
CallbackNoAlloc == audio.allocs = 0

\* the callback is not at its lock() while main holds the Mutex
CallbackNeverWaits == ~(audio.cb = "lock" /\ audio.lock = "main")

\* C35: the audio callback neither allocates nor waits for the synth lock
\* while the emulator thread holds it
CallbackRealTimeSafe == CallbackNoAlloc /\ CallbackNeverWaits

(***************************************************************************)
(* C36, C37: what Bus::step leaves in ppu_mode and in IF bit 1             *)
(***************************************************************************)
\* C36: after every Bus::step with the LCD on, the stored mode is the mode of
\* the current position: 1 from line 144 on, otherwise 2, 3 or 0 for a line
\* dot in [0,80), [80,252) or [252,456)
StoredModeIsCurrent ==
    [][((\E c \in Batches : BusStep(c)) /\ Bit(bus.lcdc, 7) = 1)
          => bus'.ppu_mode = BusModeAt(bus')[1]]_vars

\* C37: with STAT bit 6 set and LY = LYC throughout, once software has
\* cleared IF bit 1 a Bus::step that stays on the line does not set it again
StatRaisedOnce ==
    [][(/\ build = "busstat"
        /\ ev.kind = "lcdreg"
        /\ ev.cleared
        /\ ev'.kind = "stat"
        /\ Bit(bus.lcdc, 7) = 1
        /\ Bit(bus.stat_w, 6) = 1
        /\ bus.ly = bus.lyc
        /\ bus'.ly = bus.ly)
          => Bit(bus'.ifl, 1) = 0]_vars

(***************************************************************************)
(* C38: CPU::step of a halted core                                         *)
(***************************************************************************)
\* C38: with the core halted and no enabled interrupt pending, CPU::step
\* leaves PC, SP, the registers, IME and memory as they were
HaltedStepIdle ==
    [][(/\ build = "cpuboot"
        /\ cpu.halted
        /\ Pending(MmuReadByte(mmu, IF_ADDR), MmuReadByte(mmu, IE_ADDR)) = 0
        /\ \E op \in GbOpcodes : CpuStep(op))
          => /\ cpu'.pc = cpu.pc
             /\ cpu'.sp = cpu.sp
             /\ cpu'.af = cpu.af
             /\ cpu'.ime = cpu.ime
             /\ cpu'.halted
             /\ mmu' = mmu]_vars

(***************************************************************************)
(* core/cpu/mod.rs: CALL nn, RST n and RET through CPU::step               *)
(***************************************************************************)
\* the opcodes of CALL nn and RET in decode_and_execute and control::dispatch
CALL == 205
RET == 201
CYCLES_24 == 24

\* the RST arms of decode_and_execute: 0xC7 -> 0x00, 0xCF -> 0x08, ... 0xFF -> 0x38
RstVector(op) == op - 199

\* CPU::call: the target is fetched, PC as it was on entry plus 2 is pushed
Call(c, m) ==
    LET f == FetchWord(c, m)
        r == PushWord(f.cpu, m, Wrap16(c.pc + 2))
    IN [cpu |-> [r.cpu EXCEPT !.pc = f.value], mmu |-> r.mmu, cycles |-> CYCLES_24]

\* CPU::ret, reached from instructions::execute (with its logo-area skip)
\* and control::dispatch
Ret(c, m) ==
    IF InLogo(c.pc) THEN [cpu |-> [c EXCEPT !.pc = 336], mmu |-> m, cycles |-> 4]
    ELSE LET r == PopWord(c, m)
         IN [cpu |-> [r.cpu EXCEPT !.pc = r.value], mmu |-> m, cycles |-> CYCLES_16]

\* CPU::step on the byte at PC, for CALL nn, RST n, RET and NOP
StepCall(c, m) ==
    LET op == MmuReadByte(m, c.pc)
        c0 == [c EXCEPT !.pc = Wrap16(c.pc + 1),
                        !.instruction_count = c.instruction_count + 1]
        x == CASE op = CALL -> Call(c0, m)
               [] op \in RstOpcodes ->
                    [cpu |-> Rst(c0, m, RstVector(op)).cpu,
                     mmu |-> Rst(c0, m, RstVector(op)).mmu, cycles |-> CYCLES_16]
               [] op = RET -> Ret(c0, m)
               [] OTHER -> [cpu |-> c0, mmu |-> m, cycles |-> CYCLES_4]
        r == CheckAndHandleInterrupts(x.cpu, x.mmu)
    IN [cpu |-> r.cpu, mmu |-> r.mmu, cycles |-> x.cycles, op |-> op]

\* addresses the calling instruction is placed at, CALL targets, RST opcodes
\* and stack pointers before the call
CallAddrs == {512, 256, 335, 16384}
CallTargets == {4660, 24576}
CallRsts == {199, 207, 255}
CallSps == {65534, 65532, 65530}

\* destination of the calling instruction op with operand target
CallDest(op, target) == IF op = CALL THEN target ELSE RstVector(op)

\* the cells of cartridge_rom: the calling instruction at address at (its
\* operand low byte first), NOPs after it, and RET at its destination
CallProgram(at, op, target) ==
    [a \in (at..(at + 4)) \cup {CallDest(op, target)} |->
        IF a = CallDest(op, target) THEN RET
        ELSE IF a = at THEN op
        ELSE IF op = CALL /\ a = at + 1 THEN target % 256
        ELSE IF op = CALL /\ a = at + 2 THEN target \div 256
        ELSE NOP]

\* a cartridge image is loaded and PC and SP are set
CallLoad(at, op, target, sp) ==
    /\ build = "callstep"
    /\ ev.kind = "none"
    /\ mmu' = [mmu EXCEPT !.rom = CallProgram(at, op, target)]
    /\ cpu' = [cpu EXCEPT !.pc = at, !.sp = sp]
    /\ ev' = [kind |-> "callload", at |-> at, op |-> op, sp0 |-> sp, ran |-> NOP]
    /\ UNCHANGED <<build, audio, cart, bus, io, ppu, leg, elapsed>>

\* CPU::step left r
CallCommit(r) ==
    /\ cpu' = r.cpu
    /\ mmu' = r.mmu
    /\ elapsed' = elapsed + r.cycles
    /\ ev' = [ev EXCEPT !.kind = IF ev.kind = "callload" THEN "called" ELSE "returned",
                        !.ran = r.op]

\* CPU::step: first on the calling instruction, then on what it led to
CallStep ==
    /\ build = "callstep"
    /\ ev.kind \in {"callload", "called"}
    /\ CallCommit(StepCall(cpu, mmu))
    /\ UNCHANGED <<build, audio, cart, bus, io, ppu, leg>>

InitCall ==
    /\ build = "callstep"
    /\ audio = AudioNew
    /\ bus = BusNew
    /\ cart = NoCart
    /\ io = BusIONew
    /\ ppu = PpuNew
    /\ mmu = MmuNew
    /\ cpu = CpuNew
    /\ leg = LegNew
    /\ elapsed = 0
    /\ ev = NoEvent

NextCall ==
    \/ \E at \in CallAddrs, op \in {CALL} \cup CallRsts, t \in CallTargets, sp \in CallSps :
          CallLoad(at, op, t, sp)
    \/ CallStep

SpecCall == InitCall /\ [][NextCall]_vars

\* length of the calling instruction
CallLen(op) == IF op = CALL THEN 3 ELSE 1

\* the word on top of the stack after the call is the address after the
\* calling instruction, and the matching RET resumes there with SP restored
ReturnRule ==
    /\ ev.kind = "called" =>
          /\ cpu.sp = ev.sp0 - 2
          /\ MmuReadWord(mmu, cpu.sp) = ev.at + CallLen(ev.op)
    /\ (ev.kind = "returned" /\ ev.ran = RET) =>
          /\ cpu.pc = ev.at + CallLen(ev.op)
          /\ cpu.sp = ev.sp0

\* C39 for CALL nn
CallReturnRule == (build = "callstep" /\ ev.kind # "none" /\ ev.op = CALL) => ReturnRule

\* C39 for RST n
RstReturnRule == (build = "callstep" /\ ev.kind # "none" /\ ev.op # CALL) => ReturnRule

\* C39: CALL nn and RST n executed through CPU::step push the address of the
\* next instruction (opcode address + 3 and + 1), and a matching RET resumes
\* there with SP as it was before the call
CallPushesNext == CallReturnRule /\ RstReturnRule

(***************************************************************************)
(* Sprite overlay: Bus::render_scanline (GB/BUS.rs) and SpriteRenderer     *)
(* (core/ppu/sprite.rs)                                                    *)
(***************************************************************************)
SCREEN_WIDTH == 160
SPRITES_PER_LINE == 10
SPRITE_HEIGHT == 8
SPRITE_WIDTH == 8
\* entries of OAM, 4 bytes each
OamSprites == 40
ScreenXs == 0..(SCREEN_WIDTH - 1)

\* colour number of pixel px of a tile row: bit 7 - px, or px when flipped
PixelColor(lo, hi, px, xflip) ==
    LET bit == IF xflip THEN px ELSE 7 - px
    IN 2 * Bit(hi, bit) + Bit(lo, bit)

\* (palette >> (color * 2)) & 0x03
Shade(palette, color) == (palette \div Pow2(2 * color)) % 4

\* Bus::render_scanline, the body of `for i in 0..40' for entry i: r holds
\* shades and sprite_written
BusSprite(b, bg_color_idx, r, i) ==
    LET oam == OamBase + i * 4
        sy == BusRamRead(b, oam) - 16
        sx == BusRamRead(b, oam + 1) - 8
        tile0 == BusRamRead(b, oam + 2)
        attr == BusRamRead(b, oam + 3)
        palette == IF Bit(attr, 4) = 1 THEN b.obp1 ELSE b.obp0
        height == IF Bit(b.lcdc, 2) = 1 THEN 16 ELSE 8
        row0 == b.ly - sy
        row == IF Bit(attr, 6) = 1 THEN height - 1 - row0 ELSE row0
        tile == IF Bit(b.lcdc, 2) = 1 THEN tile0 - (tile0 % 2) ELSE tile0
        tile_addr == 32768 + tile * 16 + row * 2
        lo == BusRamRead(b, tile_addr)
        hi == BusRamRead(b, tile_addr + 1)
        color(x) == PixelColor(lo, hi, x - sx, Bit(attr, 5) = 1)
        draws(x) ==
            /\ x - sx \in 0..7
            /\ color(x) # 0
            /\ ~r.sprite_written[x]
            /\ ~(Bit(attr, 7) = 1 /\ bg_color_idx[x] # 0)
    IN IF b.ly < sy \/ b.ly >= sy + height THEN r
       ELSE [shades |-> [x \in ScreenXs |->
                            IF draws(x) THEN Shade(palette, color(x)) ELSE r.shades[x]],
             sprite_written |-> [x \in ScreenXs |-> r.sprite_written[x] \/ draws(x)]]

RECURSIVE BusSpriteLoop(_, _, _, _)
BusSpriteLoop(b, bg_color_idx, r, i) ==
    IF i >= OamSprites THEN r
    ELSE BusSpriteLoop(b, bg_color_idx, BusSprite(b, bg_color_idx, r, i), i + 1)

\* Bus::render_scanline with the background off (LCDC bit 0 clear): the row
\* of shades written to the framebuffer
BusRenderScanline(b) ==
    LET blank == [x \in ScreenXs |-> 0]
        r0 == [shades |-> blank, sprite_written |-> [x \in ScreenXs |-> FALSE]]
    IN IF Bit(b.lcdc, 1) = 1 THEN BusSpriteLoop(b, blank, r0, 0).shades
       ELSE blank

\* Sprite::new for OAM entry i read through MMU::read_byte
CoreSprite(m, i) ==
    [x |-> MmuReadByte(m, OamBase + i * 4 + 1) - 8,
     y |-> MmuReadByte(m, OamBase + i * 4) - 16,
     tile_index |-> MmuReadByte(m, OamBase + i * 4 + 2),
     flags |-> MmuReadByte(m, OamBase + i * 4 + 3)]

\* SpriteRenderer::update_sprites: the 40 entries under a stable sort by x
UpdateSprites(m) ==
    LET sp == [i \in 0..(OamSprites - 1) |-> CoreSprite(m, i)]
        rank(i) == Cardinality({j \in DOMAIN sp :
                                   sp[j].x < sp[i].x \/ (sp[j].x = sp[i].x /\ j < i)})
    IN [k \in 1..OamSprites |-> sp[CHOOSE i \in DOMAIN sp : rank(i) = k - 1]]

\* SpriteRenderer::render_line, the body of the loop for one sprite: r holds
\* sprite_line (<<>> for None, else <<color_idx, color_num>>) and
\* sprites_on_line
CoreSpriteDraw(m, s, line, bg_line, r) ==
    LET visible == s.y <= line /\ line < s.y + SPRITE_HEIGHT
        y0 == line - s.y
        y_offset == IF Bit(s.flags, 6) = 1 THEN SPRITE_HEIGHT - 1 - y0 ELSE y0
        tile_addr == 32768 + s.tile_index * 16
        low_byte == MmuReadByte(m, tile_addr + y_offset * 2)
        high_byte == MmuReadByte(m, tile_addr + y_offset * 2 + 1)
        palette == MmuReadByte(m, IF Bit(s.flags, 4) = 1 THEN 65353 ELSE 65352)
        color_num(x) == PixelColor(low_byte, high_byte, x - s.x, Bit(s.flags, 5) = 1)
        draws(x) ==
            /\ x - s.x \in 0..(SPRITE_WIDTH - 1)
            /\ color_num(x) # 0
            /\ ~(Bit(s.flags, 7) = 1 /\ bg_line[x] # 0)
    IN IF ~visible \/ r.sprites_on_line >= SPRITES_PER_LINE THEN r
       ELSE [sprite_line |-> [x \in ScreenXs |->
                                 IF draws(x)
                                 THEN <<Shade(palette, color_num(x)), color_num(x)>>
                                 ELSE r.sprite_line[x]],
             sprites_on_line |-> r.sprites_on_line + 1]

\* `for sprite in self.sprites.iter().rev()' from entry k down
RECURSIVE CoreSpriteLoop(_, _, _, _, _, _)
CoreSpriteLoop(m, sprites, line, bg_line, r, k) ==
    IF k < 1 THEN r
    ELSE CoreSpriteLoop(m, sprites, line, bg_line,
                        CoreSpriteDraw(m, sprites[k], line, bg_line, r), k - 1)

\* PPU::render_line over a background of colour 0: update_sprites, then
\* SpriteRenderer::render_line; the row of sprite pixels
CoreRenderLine(m, line) ==
    LET blank == [x \in ScreenXs |-> 0]
        r0 == [sprite_line |-> [x \in ScreenXs |-> <<>>], sprites_on_line |-> 0]
    IN CoreSpriteLoop(m, UpdateSprites(m), line, blank, r0, OamSprites).sprite_line

\* X bytes of the two sprites under test (OAM entries 0 and 1) and the number
\* of further sprites on the same line (entries 2 onwards, X byte 108)
SpriteXs == {8, 12, 15, 16}
SpriteFillers == {0, 9}

\* the non-zero cells of OAM and of the tile data: entry 0 shows tile 1
\* (colour 1), entry 1 tile 2 (colour 2), the others tile 3 (colour 3); all
\* have Y byte 16 (screen line 0 to 7) and attributes 0
SpriteCells(xa, xb, n) ==
    {<<OamBase, 16>>, <<OamBase + 1, xa>>, <<OamBase + 2, 1>>,
     <<OamBase + 4, 16>>, <<OamBase + 5, xb>>, <<OamBase + 6, 2>>}
    \cup UNION {{<<OamBase + 4 * i, 16>>, <<OamBase + 4 * i + 1, 108>>,
                 <<OamBase + 4 * i + 2, 3>>} : i \in 2..(n + 1)}
    \cup {<<32784, 255>>, <<32801, 255>>, <<32816, 255>>, <<32817, 255>>}

\* Bus::write of OAM, tile data and OBP0 = 0xE4 (shade = colour number) with
\* the LCD off, then of LCDC with the LCD and the sprites on and the
\* background off
SpriteBusLoad(xa, xb, n) ==
    /\ build = "spritebus"
    /\ ev.kind = "none"
    /\ bus' = [bus EXCEPT !.ram = SpriteCells(xa, xb, n), !.obp0 = 228,
                          !.lcdc = 130]
    /\ ev' = [kind |-> "oam", xa |-> xa, xb |-> xb, n |-> n]
    /\ UNCHANGED <<build, audio, cart, io, ppu, mmu, cpu, leg, elapsed>>

\* Bus::render_scanline for line LY: row is what it wrote to the framebuffer
SpriteBusRender ==
    /\ build = "spritebus"
    /\ ev.kind = "oam"
    /\ ev' = [kind |-> "line", xa |-> ev.xa, xb |-> ev.xb, n |-> ev.n,
              row |-> BusRenderScanline(bus)]
    /\ UNCHANGED <<build, audio, cart, bus, io, ppu, mmu, cpu, leg, elapsed>>

\* MMU::write_byte of OAM, tile data and OBP0 = 0xE4
SpriteCoreLoad(xa, xb, n) ==
    /\ build = "spritecore"
    /\ ev.kind = "none"
    /\ mmu' = [mmu EXCEPT !.video = SpriteCells(xa, xb, n) \cup {<<65352, 228>>}]
    /\ ev' = [kind |-> "oam", xa |-> xa, xb |-> xb, n |-> n]
    /\ UNCHANGED <<build, audio, cart, bus, io, ppu, cpu, leg, elapsed>>

\* PPU::render_line for current_line: row is the sprite layer it mixed in
SpriteCoreRender ==
    /\ build = "spritecore"
    /\ ev.kind = "oam"
    /\ ev' = [kind |-> "line", xa |-> ev.xa, xb |-> ev.xb, n |-> ev.n,
              row |-> CoreRenderLine(mmu, ppu.current_line)]
    /\ UNCHANGED <<build, audio, cart, bus, io, ppu, mmu, cpu, leg, elapsed>>

InitSprite ==
    /\ build \in {"spritebus", "spritecore"}
    /\ audio = AudioNew
    /\ bus = BusNew
    /\ cart = NoCart
    /\ io = BusIONew
    /\ ppu = PpuNew
    /\ mmu = MmuNew
    /\ cpu = CpuNew
    /\ leg = LegNew
    /\ elapsed = 0
    /\ ev = NoEvent

NextSprite ==
    \/ \E xa \in SpriteXs, xb \in SpriteXs, n \in SpriteFillers : SpriteBusLoad(xa, xb, n)
    \/ SpriteBusRender
    \/ \E xa \in SpriteXs, xb \in SpriteXs, n \in SpriteFillers : SpriteCoreLoad(xa, xb, n)
    \/ SpriteCoreRender

SpecSprite == InitSprite /\ [][NextSprite]_vars

\* screen positions where entries 0 and 1 both have an opaque pixel
BothOpaque == {x \in ScreenXs : x - (ev.xa - 8) \in 0..7 /\ x - (ev.xb - 8) \in 0..7}

\* colour of the sprite with the lower sx, or of entry 0 when they are equal
FrontColor == IF ev.xa <= ev.xb THEN 1 ELSE 2

\* Bus::render_scanline shows the sprite with the lower sx, then the lower
\* OAM index
SpriteOrderBus ==
    (build = "spritebus" /\ ev.kind = "line") =>
        \A x \in BothOpaque : ev.row[x] = FrontColor

\* SpriteRenderer::render_line shows the sprite with the lower sx, then the
\* lower OAM index
SpriteOrderCore ==
    (build = "spritecore" /\ ev.kind = "line") =>
        \A x \in BothOpaque : ev.row[x] = <<FrontColor, FrontColor>>

\* the same with no more than 10 sprites on the line
SpriteOrderCoreTen ==
    (build = "spritecore" /\ ev.kind = "line" /\ ev.n + 2 <= SPRITES_PER_LINE) =>
        \A x \in BothOpaque : ev.row[x] = <<FrontColor, FrontColor>>

\* C40: where two sprites of a line both have an opaque pixel at a screen
\* position, the pixel shown is from the one with the lower sx, or with the
\* lower OAM index when their sx are equal
SpriteOrder == SpriteOrderBus /\ SpriteOrderCore

====
